---- MODULE Spec2Model ----
(***************************************************************************)
(* A model of angular-changes-manager: the ChangesManager class            *)
(* (src/src/ChangesManager.ts) and its helpers (ChangesManager.utils,      *)
(* src/unnamed/part_002).                                                  *)
(*                                                                         *)
(* JavaScript is single threaded: the code of one cycle runs to completion *)
(* and gives control away only where it calls a function it was given (a   *)
(* validator, a handler, changeDetectorRef.detectChanges, onChanges) and   *)
(* where a timer fires.  One action of the model is the code between two   *)
(* such points.                                                            *)
(***************************************************************************)
EXTENDS Integers, Sequences, FiniteSets, TLC

VARIABLES
  component,          \* this.component
  strict,             \* this.strict
  debounceDelay,      \* the constructor's debounceDelay
  onChanges,          \* this.onChanges (a hook, or Undefined)
  callbacksConfig,    \* this.callbacksConfig
  propertiesByGroup,  \* this.propertiesByGroup : Map<string, Set<key>>
  callbacksByGroup,   \* this.callbacksByGroup : Map<string, TCallbackConfig>
  timers,             \* the runtime's pending timers, in scheduling order
  stack,              \* the running _manageChanges activations (top last)
  call,               \* the last public manageChanges call and what it returned
  last,               \* the last activation that ran to its end
  pureIn,             \* the argument of a helper, or of the configuration
                      \* call, applied on its own
  pureOut             \* and what the helper returned

vars == <<component, strict, debounceDelay, onChanges, callbacksConfig,
          propertiesByGroup, callbacksByGroup, timers, stack, call, last,
          pureIn, pureOut>>

managerVars == <<component, strict, debounceDelay, onChanges, callbacksConfig,
                 propertiesByGroup, callbacksByGroup>>

-----------------------------------------------------------------------------
(* JavaScript values.  A primitive is its value; an object has a reference *)
(* of its own, so two objects of the same shape are two values.            *)

Undefined == [type |-> "undefined"]
Null == [type |-> "null"]

Primitive(v) == [type |-> "primitive", val |-> v, ref |-> 0]
Object(shape, r) == [type |-> "object", val |-> shape, ref |-> r]
Function(name) == [type |-> "function", name |-> name]

NotANumber == Primitive("NaN")

\* isNaN(x), for the numbers and the undefined the model passes
isNaN(x) == x = NotANumber \/ x = Undefined

\* typeof x === 'function'
IsFunction(x) == x.type = "function"

\* x ?? y
Coalesce(x, y) == IF x = Undefined \/ x = Null THEN y ELSE x

\* A comparison of what the values look like: two objects of one shape are
\* the same.
DeepEquals(x, y) ==
  IF x.type = "object" /\ y.type = "object" THEN x.val = y.val ELSE x = y

\* Object.is(x, y): SameValue. NaN is NaN, +0 is not -0, an object is itself.
ObjectIs(x, y) == x = y

-----------------------------------------------------------------------------
(* Property names are strings: sequences of characters.                    *)

CharCodeAt(c) ==
  CASE c = "a" -> 97
    [] c = "b" -> 98
    [] c = "c" -> 99
    [] c = "|" -> 124

\* The default comparison of Array.prototype.sort: by UTF-16 code units.
RECURSIVE StringLess(_, _)
StringLess(s, t) ==
  IF t = <<>> THEN FALSE
  ELSE IF s = <<>> THEN TRUE
  ELSE IF CharCodeAt(Head(s)) # CharCodeAt(Head(t))
       THEN CharCodeAt(Head(s)) < CharCodeAt(Head(t))
       ELSE StringLess(Tail(s), Tail(t))

RECURSIVE InsertSorted(_, _)
InsertSorted(x, sorted) ==
  IF sorted = <<>> THEN <<x>>
  ELSE IF StringLess(x, Head(sorted)) THEN <<x>> \o sorted
  ELSE <<Head(sorted)>> \o InsertSorted(x, Tail(sorted))

\* props.sort(): a stable sort, every element kept (duplicates too).
RECURSIVE ArraySort(_)
ArraySort(props) ==
  IF props = <<>> THEN <<>>
  ELSE InsertSorted(props[Len(props)], ArraySort(SubSeq(props, 1, Len(props) - 1)))

\* props.join('|')
RECURSIVE ArrayJoin(_, _)
ArrayJoin(props, separator) ==
  IF props = <<>> THEN <<>>
  ELSE IF Len(props) = 1 THEN props[1]
  ELSE props[1] \o separator \o ArrayJoin(Tail(props), separator)

\* string.split(separator), the separator being one character
RECURSIVE StringSplit(_, _)
StringSplit(string, separator) ==
  IF \A i \in DOMAIN string : <<string[i]>> # separator THEN <<string>>
  ELSE LET at == CHOOSE i \in DOMAIN string :
                   /\ <<string[i]>> = separator
                   /\ \A j \in 1..(i - 1) : <<string[j]>> # separator
       IN <<SubSeq(string, 1, at - 1)>>
            \o StringSplit(SubSeq(string, at + 1, Len(string)), separator)

\* new Set(array)
SetOf(array) == {array[i] : i \in DOMAIN array}

-----------------------------------------------------------------------------
(* A Map is its entries in insertion order.                                *)

MapKeys(map) == {map[i].key : i \in DOMAIN map}

MapHas(map, key) == key \in MapKeys(map)

MapGet(map, key) ==
  IF MapHas(map, key)
  THEN map[CHOOSE i \in DOMAIN map : map[i].key = key].value
  ELSE Undefined

\* A set that leaves the value of a key already there.
MapSetKeepingFirst(map, key, value) ==
  IF \E i \in DOMAIN map : map[i].key = key THEN map
  ELSE Append(map, [key |-> key, value |-> value])

\* map.set(key, value): a key already there keeps its place.
MapSet(map, key, value) ==
  IF MapHas(map, key)
  THEN [i \in DOMAIN map |->
          IF map[i].key = key THEN [key |-> key, value |-> value] ELSE map[i]]
  ELSE Append(map, [key |-> key, value |-> value])

\* set.add(x) on a Set kept in insertion order
SetAdd(set, x) == IF x \in SetOf(set) THEN set ELSE Append(set, x)

-----------------------------------------------------------------------------
(* ChangesManager.utils                                                    *)

didPropertyChange(simpleChange) ==
  LET shouldIgnoreChange ==
        IF simpleChange = Undefined THEN TRUE ELSE simpleChange.firstChange
  IN IF shouldIgnoreChange THEN FALSE
     ELSE IF ObjectIs(simpleChange.currentValue, simpleChange.previousValue)
          THEN FALSE
          ELSE TRUE

\* { ...simpleChange, didChange }: spreading undefined adds nothing, and the
\* spread copies isFirstChange where it is a property of the object itself.
SummaryEntry(simpleChange) ==
  IF simpleChange = Undefined
  THEN [didChange |-> didPropertyChange(simpleChange)]
  ELSE IF "isFirstChange" \in DOMAIN simpleChange
  THEN [previousValue |-> simpleChange.previousValue,
        currentValue |-> simpleChange.currentValue,
        firstChange |-> simpleChange.firstChange,
        isFirstChange |-> simpleChange.isFirstChange,
        didChange |-> didPropertyChange(simpleChange)]
  ELSE [previousValue |-> simpleChange.previousValue,
        currentValue |-> simpleChange.currentValue,
        firstChange |-> simpleChange.firstChange,
        didChange |-> didPropertyChange(simpleChange)]

\* A summary with an entry for every property of the component.
getChangesSummaryOfComponent(simpleChanges) ==
  [property \in DOMAIN simpleChanges \cup {<<"a">>, <<"b">>} |->
     IF property \in DOMAIN simpleChanges
     THEN SummaryEntry(simpleChanges[property])
     ELSE SummaryEntry(Undefined)]

\* simpleChanges and the summary are objects: functions of their own keys.
getChangesSummary(simpleChanges) ==
  [property \in DOMAIN simpleChanges |-> SummaryEntry(simpleChanges[property])]

-----------------------------------------------------------------------------
(* The callbacks configuration (TCallbacksConfigParameter) is either an    *)
(* array of [keys, config] pairs or an object of key: config properties,   *)
(* kept here as its properties in their own order.  A config is a function *)
(* or a { callback, validator } object; a property an object lacks reads   *)
(* as undefined.                                                           *)

CallbackConfig(callback, validator) ==
  [type |-> "object", callback |-> callback, validator |-> validator]

\* reading config.callback and config.validator ({ callback, validator })
CallbackOf(config) == IF config.type = "object" THEN config.callback ELSE Undefined
ValidatorOf(config) == IF config.type = "object" THEN config.validator ELSE Undefined

SanitizeConfig(config) ==
  IF IsFunction(config) THEN CallbackConfig(config, Null) ELSE config

getCallbacksConfigFromParameter(parameter) ==
  [i \in DOMAIN parameter.entries |->
     [keys |-> parameter.entries[i].keys,
      config |-> SanitizeConfig(parameter.entries[i].config)]]

\* A normalisation of the object form into one group of all its keys, with
\* the config of the first.
getCallbacksConfigFromParameterObjectAsOneGroup(parameter) ==
  IF parameter.entries = <<>> THEN <<>>
  ELSE <<[keys |-> [i \in DOMAIN parameter.entries |-> parameter.entries[i].key],
          config |-> IF parameter.entries[1].config.type = "function"
                     THEN [type |-> "object",
                           callback |-> parameter.entries[1].config,
                           validator |-> [type |-> "null"]]
                     ELSE parameter.entries[1].config]>>

getCallbacksConfigFromParameterObject(parameter) ==
  [i \in DOMAIN parameter.entries |->
     [keys |-> <<parameter.entries[i].key>>,
      config |-> SanitizeConfig(parameter.entries[i].config)]]

GroupId(props) == ArrayJoin(ArraySort(props), <<"|">>)

\* The forEach of computeCallbackConfigDerivatives, entry by entry.
RECURSIVE ComputeDerivatives(_, _)
ComputeDerivatives(config, maps) ==
  IF config = <<>> THEN maps
  ELSE LET entry == Head(config)
           groupId == GroupId(entry.keys)
           groupAttributesSet == SetOf(ArraySort(entry.keys))
       IN ComputeDerivatives(Tail(config),
            [propertiesByGroup |->
               MapSet(maps.propertiesByGroup, groupId, groupAttributesSet),
             callbacksByGroup |->
               MapSet(maps.callbacksByGroup, groupId,
                      [callback |-> CallbackOf(entry.config),
                       validator |-> Coalesce(ValidatorOf(entry.config), Null)])])

computeCallbackConfigDerivatives(config) ==
  ComputeDerivatives(config, [propertiesByGroup |-> <<>>, callbacksByGroup |-> <<>>])

\* props.sort() sorts the keys array of the configuration itself.
SortedInPlace(config) ==
  [i \in DOMAIN config |-> [config[i] EXCEPT !.keys = ArraySort(@)]]

\* A setCallbacksConfig that adds the groups to the maps there are.
setCallbacksConfigMerging(parameter, before) ==
  IF parameter = Undefined THEN before
  ELSE LET config == IF parameter.shape = "array"
                     THEN getCallbacksConfigFromParameter(parameter)
                     ELSE getCallbacksConfigFromParameterObject(parameter)
           derived == ComputeDerivatives(config,
                        [propertiesByGroup |-> before.propertiesByGroup,
                         callbacksByGroup |-> before.callbacksByGroup])
       IN [callbacksConfig |-> SortedInPlace(config),
           propertiesByGroup |-> derived.propertiesByGroup,
           callbacksByGroup |-> derived.callbacksByGroup]

\* The manager's configuration fields after setCallbacksConfig(parameter),
\* given what they were before.
setCallbacksConfig(parameter, before) ==
  IF parameter = Undefined THEN before
  ELSE LET config == IF parameter.shape = "array"
                     THEN getCallbacksConfigFromParameter(parameter)
                     ELSE getCallbacksConfigFromParameterObject(parameter)
           derived == computeCallbackConfigDerivatives(config)
       IN [callbacksConfig |-> SortedInPlace(config),
           propertiesByGroup |-> derived.propertiesByGroup,
           callbacksByGroup |-> derived.callbacksByGroup]

\* The field initializers of the class.
FieldDefaults ==
  [callbacksConfig |-> Null, propertiesByGroup |-> <<>>, callbacksByGroup |-> <<>>]

-----------------------------------------------------------------------------
(* Dispatch                                                                *)

\* A group that asks every one of its properties to have changed.
shouldIncludeGroupOfAll(groupId, changesSummary) ==
  \A property \in MapGet(propertiesByGroup, groupId) :
    property \in DOMAIN changesSummary /\ changesSummary[property].didChange

\* The `some` of getCallbacksWhichShouldBeExecuted for one group.
shouldIncludeGroup(groupId, changesSummary) ==
  \E property \in DOMAIN changesSummary :
    LET groupAttributes == MapGet(propertiesByGroup, groupId)
        attributeHasChanges == changesSummary[property].didChange
        attributeBelongsToGroup == property \in groupAttributes
    IN attributeHasChanges /\ attributeBelongsToGroup

\* The reduce with an entry for every triggered group instead of one for
\* every callback.
RECURSIVE ReduceCallbacksPerGroup(_, _, _)
ReduceCallbacksPerGroup(callbacksGroups, accumulator, changesSummary) ==
  IF callbacksGroups = <<>> THEN accumulator
  ELSE LET groupId == Head(callbacksGroups).key
           callback == Head(callbacksGroups).value.callback
           validator == Head(callbacksGroups).value.validator
       IN ReduceCallbacksPerGroup(Tail(callbacksGroups),
            IF shouldIncludeGroup(groupId, changesSummary)
            THEN Append(accumulator,
                        [key |-> callback,
                         value |-> IF validator # Null /\ validator # Undefined
                                   THEN <<validator>> ELSE <<>>])
            ELSE accumulator,
            changesSummary)

\* The reduce keeping for a callback the validator of its last triggered
\* group only.
RECURSIVE ReduceCallbacksLastValidator(_, _, _)
ReduceCallbacksLastValidator(callbacksGroups, accumulator, changesSummary) ==
  IF callbacksGroups = <<>> THEN accumulator
  ELSE LET groupId == Head(callbacksGroups).key
           callback == Head(callbacksGroups).value.callback
           validator == Head(callbacksGroups).value.validator
       IN ReduceCallbacksLastValidator(Tail(callbacksGroups),
            IF shouldIncludeGroup(groupId, changesSummary)
            THEN MapSet(accumulator, callback,
                        IF validator # Null /\ validator # Undefined
                        THEN <<validator>> ELSE <<>>)
            ELSE accumulator,
            changesSummary)

\* The reduce that, for a callback already in the result, adds the
\* validator of its groups that were not triggered too.
RECURSIVE ReduceCallbacksEveryValidator(_, _, _)
ReduceCallbacksEveryValidator(callbacksGroups, accumulator, changesSummary) ==
  IF callbacksGroups = <<>> THEN accumulator
  ELSE LET groupId == Head(callbacksGroups).key
           callback == Head(callbacksGroups).value.callback
           validator == Head(callbacksGroups).value.validator
           validators == IF MapHas(accumulator, callback)
                         THEN MapGet(accumulator, callback)
                         ELSE <<>>
           added == IF validator # Null /\ validator # Undefined
                    THEN SetAdd(validators, validator)
                    ELSE validators
       IN ReduceCallbacksEveryValidator(Tail(callbacksGroups),
            IF shouldIncludeGroup(groupId, changesSummary)
                 \/ MapHas(accumulator, callback)
            THEN MapSet(accumulator, callback, added)
            ELSE accumulator,
            changesSummary)

\* The reduce of getCallbacksWhichShouldBeExecuted: Map<callback, Set<validator>>.
RECURSIVE ReduceCallbacks(_, _, _)
ReduceCallbacks(callbacksGroups, accumulator, changesSummary) ==
  IF callbacksGroups = <<>> THEN accumulator
  ELSE LET groupId == Head(callbacksGroups).key
           callback == Head(callbacksGroups).value.callback
           validator == Head(callbacksGroups).value.validator
           validators == IF MapHas(accumulator, callback)
                         THEN MapGet(accumulator, callback)
                         ELSE <<>>
           added == IF validator # Null /\ validator # Undefined
                    THEN SetAdd(validators, validator)
                    ELSE validators
       IN ReduceCallbacks(Tail(callbacksGroups),
            IF shouldIncludeGroup(groupId, changesSummary)
            THEN MapSet(accumulator, callback, added)
            ELSE accumulator,
            changesSummary)

\* The callbacks to execute, the one of the last triggered group first.
getCallbacksLastGroupFirst(changesSummary) ==
  LET callbacks == ReduceCallbacks(callbacksByGroup, <<>>, changesSummary)
  IN [i \in DOMAIN callbacks |-> callbacks[Len(callbacks) + 1 - i]]

getCallbacksWhichShouldBeExecuted(changesSummary) ==
  ReduceCallbacks(callbacksByGroup, <<>>, changesSummary)

\* A `some` that asks whether a property was reported at all.
shouldProcessAnyReported(simpleChanges, changesSummary) ==
  \E key \in DOMAIN simpleChanges : key \in DOMAIN changesSummary

\* A `some` that is always satisfied.
shouldProcessAlways(simpleChanges, changesSummary) == TRUE

\* The `some` of _manageChanges.
shouldProcessChanges(simpleChanges, changesSummary) ==
  \E key \in DOMAIN simpleChanges : changesSummary[key].didChange

(* What was called, in order: the calls a cycle makes to the functions it   *)
(* was given.  A validator's call also records the callback whose entry    *)
(* the forEach was at.                                                     *)
ValidatorCall(validator, callback, changesSummary, result) ==
  [type |-> "validator", fn |-> validator, gates |-> callback,
   thisArg |-> Undefined, arg |-> changesSummary, result |-> result]

HandlerCall(callback, thisArg, changesSummary) ==
  [type |-> "handler", fn |-> callback, thisArg |-> thisArg, arg |-> changesSummary]

DetectChangesCall == [type |-> "detectChanges"]

\* A hook that is handed the entries of the changed properties only.
OnChangesCallOfChanged(changesSummary) ==
  [type |-> "onChanges",
   arg |-> [p \in {q \in DOMAIN changesSummary : changesSummary[q].didChange} |->
              changesSummary[p]]]

OnChangesCall(changesSummary) == [type |-> "onChanges", arg |-> changesSummary]

\* A call that hands over the entries of the changed properties only.
CallbackCallWithChangedOnly(callback, changesSummary) ==
  HandlerCall(callback, component,
    [p \in {q \in DOMAIN changesSummary : changesSummary[q].didChange} |->
       changesSummary[p]])

\* callback.call(this.component, changesSummary)
CallbackCall(callback, changesSummary) ==
  HandlerCall(callback, component, changesSummary)

(* An activation of _manageChanges: its arguments, its locals, where it is  *)
(* and the calls it has made.  `from` tells who called it: the public       *)
(* manageChanges itself, or the timer of its debounced form.               *)
Activation(from, simpleChanges) ==
  LET changesSummary == getChangesSummary(simpleChanges)
      skipped == strict /\ ~shouldProcessChanges(simpleChanges, changesSummary)
  IN [from |-> from,
      simpleChanges |-> simpleChanges,
      changesSummary |-> changesSummary,
      pc |-> IF skipped THEN "done" ELSE "callbacks",
      processed |-> ~skipped,
      callbacks |-> IF skipped THEN <<>>
                    ELSE getCallbacksWhichShouldBeExecuted(changesSummary),
      validated |-> 0,
      log |-> <<>>]

-----------------------------------------------------------------------------
(* Timers and debounce (ChangesManager.utils)                              *)

\* clearTimeout(timer), timer being the handle of the debounced function fn
clearTimeout(queue, fn) == SelectSeq(queue, LAMBDA t : t.fn # fn)

\* A setTimeout whose callback runs ahead of the timers already pending.
setTimeoutAhead(queue, fn, args) == <<[fn |-> fn, args |-> args]>> \o queue

\* setTimeout(callback, wait), every wait being the same
setTimeout(queue, fn, args) == Append(queue, [fn |-> fn, args |-> args])

\* A debounce that keeps the pending timer, and its arguments, when there
\* is one.
debounceKeepingPending(queue, fn, args) ==
  IF \E i \in DOMAIN queue : queue[i].fn = fn THEN queue
  ELSE setTimeout(queue, fn, args)

\* A debounce that schedules its timer and leaves the pending one alone.
debounceWithoutClear(queue, fn, args) == setTimeout(queue, fn, args)

\* A debounce whose timer handle is shared by every debounced function.
debounceSharingItsTimer(queue, fn, args) ==
  setTimeout(SelectSeq(queue, LAMBDA t : t.fn = "host"), fn, args)

\* A debounce that clears the pending timer and schedules none.
debounceClearingOnly(queue, fn, args) == clearTimeout(queue, fn)

\* A debounce whose new timer carries the arguments of the pending one
\* too, those of the new call first.
debounceMergingArguments(queue, fn, args) ==
  LET pending == SelectSeq(queue, LAMBDA t : t.fn = fn)
      merged == IF pending = <<>> THEN args
                ELSE [p \in DOMAIN args \cup DOMAIN pending[1].args |->
                        IF p \in DOMAIN args THEN args[p] ELSE pending[1].args[p]]
  IN setTimeout(clearTimeout(queue, fn), fn, merged)

\* The function debounce(callback, wait) returns, called with args; it
\* returns nothing.
debounce(queue, fn, args) == setTimeout(clearTimeout(queue, fn), fn, args)

\* A manager that never debounces manageChanges.
shouldDebounceNever == FALSE

\* const shouldDebounceDetection = !isNaN(debounceDelay)
shouldDebounceDetection == ~isNaN(debounceDelay)

-----------------------------------------------------------------------------
(* The bounds of the model and the values it is run with.                  *)

MaxDeclarations == 2

PropA == <<"a">>
PropB == <<"b">>

\* the properties ngOnChanges reports
ReportedProperties == {PropA, PropB}

\* the key lists of the groups declared in array form: a group of one
\* property and a group, not in sorted order, that holds it too
KeyLists == {<<PropA>>, <<PropB, PropA>>}

Handlers == {Function("h1"), Function("h2")}
Validators == {Function("v1"), Function("v2")}

\* functions, and { callback, validator } objects
Configs ==
  Handlers \cup {CallbackConfig(Function("h1"), v) : v \in Validators}

SimpleChange(previousValue, currentValue, firstChange) ==
  [previousValue |-> previousValue, currentValue |-> currentValue,
   firstChange |-> firstChange]

\* a change, a notification of the same value, a first change
Notifications ==
  {SimpleChange(Primitive("x"), Primitive("y"), FALSE),
   SimpleChange(Primitive("x"), Primitive("x"), FALSE),
   SimpleChange(Undefined, Primitive("y"), TRUE)}

SimpleChangesOver(properties, notifications) ==
  UNION {[S -> notifications] : S \in SUBSET properties}

CycleChanges == SimpleChangesOver(ReportedProperties, Notifications)

ArrayParameters ==
  {[shape |-> "array", entries |-> e] :
     e \in UNION {[1..n -> [keys : KeyLists, config : Configs]] :
                    n \in 0..MaxDeclarations}}

ObjectParameters ==
  {[shape |-> "object", entries |-> e] :
     e \in {x \in UNION {[1..n -> [key : ReportedProperties, config : Configs]] :
                           n \in 0..MaxDeclarations} :
              \A i, j \in DOMAIN x : x[i].key = x[j].key => i = j}}

CallbackParameters == {Undefined} \cup ArrayParameters \cup ObjectParameters

-----------------------------------------------------------------------------
(* The state after new ChangesManager({component, changeDetectorRef,       *)
(* debounceDelay, callbacks, strict, onChanges}).                          *)

InitManager ==
  /\ component = [p \in ReportedProperties |-> Primitive("x")]
  /\ strict \in BOOLEAN
  /\ debounceDelay \in {Primitive("0"), NotANumber}
  /\ onChanges \in {Undefined, Function("onChanges")}
  /\ \E parameter \in CallbackParameters :
       LET fields == setCallbacksConfig(parameter, FieldDefaults)
       IN /\ callbacksConfig = fields.callbacksConfig
          /\ propertiesByGroup = fields.propertiesByGroup
          /\ callbacksByGroup = fields.callbacksByGroup

NoCall == [type |-> "none"]
Running == [type |-> "running"]

\* a value a call returned that is a changes summary
Summary(changesSummary) == [type |-> "summary", value |-> changesSummary]

Init ==
  /\ InitManager
  /\ timers = <<>>
  /\ stack = <<>>
  /\ call = NoCall
  /\ last = NoCall
  /\ pureIn = NoCall
  /\ pureOut = NoCall

-----------------------------------------------------------------------------
(* The actions.                                                            *)

Top == stack[Len(stack)]
Below == SubSeq(stack, 1, Len(stack) - 1)

\* _manageChanges returns changesSummary to whoever called it.
Return(activation) ==
  /\ last' = [activation EXCEPT !.pc = "done"]
  /\ call' = IF activation.from = "call"
             THEN [call EXCEPT !.returned = Summary(activation.changesSummary)]
             ELSE call

\* The host calls manageChanges(simpleChanges).
ManageChanges(simpleChanges) ==
  /\ stack = <<>>
  /\ IF shouldDebounceDetection
     THEN /\ timers' = debounce(timers, "manageChanges", simpleChanges)
          /\ call' = [simpleChanges |-> simpleChanges, returned |-> Undefined]
          /\ last' = NoCall
          /\ UNCHANGED stack
     ELSE LET activation == Activation("call", simpleChanges)
          IN /\ UNCHANGED timers
             /\ IF activation.pc = "done"
                THEN /\ last' = activation
                     /\ call' = [simpleChanges |-> simpleChanges,
                                 returned |-> Summary(activation.changesSummary)]
                     /\ UNCHANGED stack
                ELSE /\ last' = NoCall
                     /\ call' = [simpleChanges |-> simpleChanges,
                                 returned |-> Running]
                     /\ stack' = Append(stack, activation)
  /\ UNCHANGED <<managerVars, pureIn, pureOut>>

\* A timer whose callback is run although a cycle is running.
TimerFiresWithinACycle ==
  /\ timers # <<>>
  /\ Head(timers).fn = "manageChanges"
  /\ timers' = Tail(timers)
  /\ LET activation == Activation("timer", Head(timers).args)
     IN IF activation.pc = "done"
        THEN /\ Return(activation)
             /\ UNCHANGED stack
        ELSE /\ stack' = Append(stack, activation)
             /\ UNCHANGED <<last, call>>
  /\ UNCHANGED <<managerVars, pureIn, pureOut>>

\* The timer of the debounced manageChanges fires: callback(...args).
TimerFires ==
  /\ stack = <<>>
  /\ timers # <<>>
  /\ Head(timers).fn = "manageChanges"
  /\ timers' = Tail(timers)
  /\ LET activation == Activation("timer", Head(timers).args)
     IN IF activation.pc = "done"
        THEN /\ Return(activation)
             /\ UNCHANGED stack
        ELSE /\ stack' = Append(stack, activation)
             /\ UNCHANGED <<last, call>>
  /\ UNCHANGED <<managerVars, pureIn, pureOut>>

\* A rejection that ends the forEach instead of the entry.
ValidatorReturnsEndingTheLoop(result) ==
  /\ stack # <<>>
  /\ Top.pc = "callbacks"
  /\ Top.callbacks # <<>>
  /\ Top.validated < Len(Head(Top.callbacks).value)
  /\ LET validators == Head(Top.callbacks).value
         validator == validators[Top.validated + 1]
         logged == Append(Top.log,
                          ValidatorCall(validator, Head(Top.callbacks).key,
                                        Top.changesSummary, result))
     IN stack' = Append(Below,
          IF result
          THEN [Top EXCEPT !.log = logged, !.validated = @ + 1]
          ELSE [Top EXCEPT !.log = logged, !.validated = 0,
                           !.callbacks = <<>>])
  /\ UNCHANGED <<managerVars, timers, call, last, pureIn, pureOut>>

\* validator(changesSummary) returns; `every` stops at the first false.
ValidatorReturns(result) ==
  /\ stack # <<>>
  /\ Top.pc = "callbacks"
  /\ Top.callbacks # <<>>
  /\ Top.validated < Len(Head(Top.callbacks).value)
  /\ LET validators == Head(Top.callbacks).value
         validator == validators[Top.validated + 1]
         logged == Append(Top.log,
                          ValidatorCall(validator, Head(Top.callbacks).key,
                                        Top.changesSummary, result))
     IN stack' = Append(Below,
          IF result
          THEN [Top EXCEPT !.log = logged, !.validated = @ + 1]
          ELSE [Top EXCEPT !.log = logged, !.validated = 0,
                           !.callbacks = Tail(@)])
  /\ UNCHANGED <<managerVars, timers, call, last, pureIn, pureOut>>

\* A callback whose groups are taken out of callbacksByGroup once it has
\* been called.
CallbackReturnsOnce ==
  /\ stack # <<>>
  /\ Top.pc = "callbacks"
  /\ Top.callbacks # <<>>
  /\ Top.validated = Len(Head(Top.callbacks).value)
  /\ IsFunction(Head(Top.callbacks).key)
  /\ stack' = Append(Below,
       [Top EXCEPT !.log = Append(@, CallbackCall(Head(Top.callbacks).key,
                                                  Top.changesSummary)),
                   !.validated = 0,
                   !.callbacks = Tail(@)])
  /\ callbacksByGroup' =
       SelectSeq(callbacksByGroup,
                 LAMBDA g : g.value.callback # Head(Top.callbacks).key)
  /\ UNCHANGED <<component, strict, debounceDelay, onChanges, callbacksConfig,
                 propertiesByGroup, timers, call, last, pureIn, pureOut>>

\* Every validator approved: callback.call(this.component, changesSummary).
CallbackReturns ==
  /\ stack # <<>>
  /\ Top.pc = "callbacks"
  /\ Top.callbacks # <<>>
  /\ Top.validated = Len(Head(Top.callbacks).value)
  /\ IsFunction(Head(Top.callbacks).key)
  /\ stack' = Append(Below,
       [Top EXCEPT !.log = Append(@, CallbackCall(Head(Top.callbacks).key,
                                                  Top.changesSummary)),
                   !.validated = 0,
                   !.callbacks = Tail(@)])
  /\ UNCHANGED <<managerVars, timers, call, last, pureIn, pureOut>>

\* A forEach that is followed by this.detectChanges() only when a callback ran.
DetectChangesAfterCallbacksOnly ==
  /\ stack # <<>>
  /\ Top.pc = "callbacks"
  /\ Top.callbacks = <<>>
  /\ LET ran == \E i \in DOMAIN Top.log : Top.log[i].type = "handler"
         after == IF ran THEN [Top EXCEPT !.log = Append(@, DetectChangesCall)]
                  ELSE Top
     IN IF onChanges = Undefined
        THEN /\ stack' = Below
             /\ Return(after)
        ELSE /\ stack' = Append(Below, [after EXCEPT !.pc = "onChanges"])
             /\ UNCHANGED <<last, call>>
  /\ UNCHANGED <<managerVars, timers, pureIn, pureOut>>

\* The forEach is over: this.detectChanges(), then this.onChanges?.(...).
DetectChangesReturns ==
  /\ stack # <<>>
  /\ Top.pc = "callbacks"
  /\ Top.callbacks = <<>>
  /\ LET after == [Top EXCEPT !.log = Append(@, DetectChangesCall)]
     IN IF onChanges = Undefined
        THEN /\ stack' = Below
             /\ Return(after)
        ELSE /\ stack' = Append(Below, [after EXCEPT !.pc = "onChanges"])
             /\ UNCHANGED <<last, call>>
  /\ UNCHANGED <<managerVars, timers, pureIn, pureOut>>

OnChangesReturns ==
  /\ stack # <<>>
  /\ Top.pc = "onChanges"
  /\ stack' = Below
  /\ Return([Top EXCEPT !.log = Append(@, OnChangesCall(Top.changesSummary))])
  /\ UNCHANGED <<managerVars, timers, pureIn, pureOut>>

Next ==
  \/ \E simpleChanges \in CycleChanges : ManageChanges(simpleChanges)
  \/ TimerFires
  \/ \E result \in BOOLEAN : ValidatorReturns(result)
  \/ CallbackReturns
  \/ DetectChangesReturns
  \/ OnChangesReturns

Spec == Init /\ [][Next]_vars

-----------------------------------------------------------------------------
(* The helpers of ChangesManager.utils applied on their own, to arguments  *)
(* drawn from JavaScript values of every kind: primitives, NaN, the two    *)
(* zeros, and two objects of one shape.                                    *)

PureValues ==
  {Primitive("x"), Primitive("y"), Primitive("NaN"), Primitive("+0"),
   Primitive("-0"), Object("{}", 1), Object("{}", 2)}

PureSimpleChange ==
  {SimpleChange(p, c, f) :
     p \in PureValues \cup {Undefined}, c \in PureValues, f \in BOOLEAN}

SummaryValues == {Primitive("x"), Primitive("NaN"), Object("{}", 1), Object("{}", 2)}

PureSimpleChanges ==
  SimpleChangesOver(ReportedProperties,
    {SimpleChange(p, c, f) : p \in SummaryValues, c \in SummaryValues, f \in BOOLEAN})

InitPure ==
  /\ component = [p \in ReportedProperties |-> Primitive("x")]
  /\ strict = TRUE
  /\ debounceDelay = Primitive("0")
  /\ onChanges = Undefined
  /\ callbacksConfig = FieldDefaults.callbacksConfig
  /\ propertiesByGroup = FieldDefaults.propertiesByGroup
  /\ callbacksByGroup = FieldDefaults.callbacksByGroup
  /\ timers = <<>>
  /\ stack = <<>>
  /\ call = NoCall
  /\ last = NoCall
  /\ pureOut = NoCall
  /\ \/ \E simpleChange \in PureSimpleChange \cup {Undefined} :
          pureIn = [fn |-> "didPropertyChange", arg |-> simpleChange]
     \/ \E simpleChanges \in PureSimpleChanges :
          pureIn = [fn |-> "getChangesSummary", arg |-> simpleChanges]

ApplyDidPropertyChange ==
  /\ pureOut = NoCall
  /\ pureIn.fn = "didPropertyChange"
  /\ pureOut' = [value |-> didPropertyChange(pureIn.arg)]
  /\ UNCHANGED <<managerVars, timers, stack, call, last, pureIn>>

ApplyGetChangesSummary ==
  /\ pureOut = NoCall
  /\ pureIn.fn = "getChangesSummary"
  /\ pureOut' = [value |-> getChangesSummary(pureIn.arg)]
  /\ UNCHANGED <<managerVars, timers, stack, call, last, pureIn>>

NextPure == ApplyDidPropertyChange \/ ApplyGetChangesSummary

SpecPure == InitPure /\ [][NextPure]_vars

-----------------------------------------------------------------------------
(* detectChangesDebounced: the second debounced function of the manager,   *)
(* with a timer handle of its own.                                         *)

\* the arguments of a call made with none
NoArguments == [p \in {} |-> Undefined]

\* The host calls detectChangesDebounced().
DetectChangesDebounced ==
  /\ stack = <<>>
  /\ timers' = debounce(timers, "detectChanges", NoArguments)
  /\ UNCHANGED <<managerVars, stack, call, last, pureIn, pureOut>>

\* The timer of detectChangesDebounced fires: this.detectChanges(), which
\* calls changeDetectorRef.detectChanges() and returns.
DetectChangesTimerFires ==
  /\ stack = <<>>
  /\ timers # <<>>
  /\ Head(timers).fn = "detectChanges"
  /\ timers' = Tail(timers)
  /\ UNCHANGED <<managerVars, stack, call, last, pureIn, pureOut>>

\* The manager with both of its debounced functions in use.
NextDebounced ==
  \/ Next
  \/ DetectChangesDebounced
  \/ DetectChangesTimerFires

SpecDebounced == Init /\ [][NextDebounced]_vars

-----------------------------------------------------------------------------
(* executeCallbacks({ avoidValidations })                                  *)

\* this.component[attribute]
ComponentGet(attribute) ==
  IF attribute \in DOMAIN component THEN component[attribute] ELSE Undefined

\* The object executeCallbacks makes up for an attribute.
SyntheticSimpleChange(attribute) ==
  [previousValue |-> ComponentGet(attribute),
   currentValue |-> ComponentGet(attribute),
   firstChange |-> FALSE,
   isFirstChange |-> Function("isFirstChange")]

\* The first reduce of executeCallbacks: the attributes of every group id
\* and, for every callback, the Set of the validators of its groups; the
\* validator of a group that has none is null, and is added as it is.
RECURSIVE ReduceExecuteCallbacks(_, _)
ReduceExecuteCallbacks(callbacksGroups, accumulator) ==
  IF callbacksGroups = <<>> THEN accumulator
  ELSE LET groupId == Head(callbacksGroups).key
           callback == Head(callbacksGroups).value.callback
           validator == Head(callbacksGroups).value.validator
           attributes == StringSplit(groupId, <<"|">>)
           validations == IF MapHas(accumulator.callbacks, callback)
                          THEN MapGet(accumulator.callbacks, callback)
                          ELSE <<>>
       IN ReduceExecuteCallbacks(Tail(callbacksGroups),
            [callbacks |-> MapSet(accumulator.callbacks, callback,
                                  SetAdd(validations, validator)),
             attributes |-> accumulator.attributes \cup SetOf(attributes)])

(* An activation of executeCallbacks, from its two reduces on: the locals  *)
(* callbacks and changesSummary, where the forEach is, the calls made.     *)
ExecuteActivation(avoidValidations) ==
  LET reduced == ReduceExecuteCallbacks(callbacksByGroup,
                   [callbacks |-> <<>>, attributes |-> {}])
      simpleChanges ==
        [attribute \in reduced.attributes |-> SyntheticSimpleChange(attribute)]
  IN [from |-> "executeCallbacks",
      avoidValidations |-> avoidValidations,
      simpleChanges |-> simpleChanges,
      changesSummary |-> getChangesSummary(simpleChanges),
      pc |-> IF reduced.callbacks = <<>> THEN "done" ELSE "executing",
      processed |-> TRUE,
      callbacks |-> reduced.callbacks,
      validated |-> 0,
      log |-> <<>>]

\* The host calls executeCallbacks({ avoidValidations }).
ExecuteCallbacks(avoidValidations) ==
  /\ stack = <<>>
  /\ LET activation == ExecuteActivation(avoidValidations)
     IN IF activation.pc = "done"
        THEN /\ last' = activation
             /\ UNCHANGED stack
        ELSE /\ last' = NoCall
             /\ stack' = Append(stack, activation)
  /\ UNCHANGED <<managerVars, timers, call, pureIn, pureOut>>

\* An `every` that calls the validators whatever avoidValidations is.
shouldValidateAlways(activation) ==
  activation.validated < Len(Head(activation.callbacks).value)

\* avoidValidations || validators.every(...): is there a validator to call
shouldValidate(activation) ==
  /\ ~activation.avoidValidations
  /\ activation.validated < Len(Head(activation.callbacks).value)

\* An end of the forEach that is followed by this.detectChanges().
ExecuteGoesOnToDetectChanges(activation) ==
  IF activation.callbacks = <<>>
  THEN /\ stack' = Below
       /\ last' = [activation EXCEPT !.pc = "done",
                                     !.log = Append(@, DetectChangesCall)]
  ELSE /\ stack' = Append(Below, activation)
       /\ UNCHANGED last

\* The forEach goes on to the next entry; after the last one
\* executeCallbacks returns.
ExecuteGoesOn(activation) ==
  IF activation.callbacks = <<>>
  THEN /\ stack' = Below
       /\ last' = [activation EXCEPT !.pc = "done"]
  ELSE /\ stack' = Append(Below, activation)
       /\ UNCHANGED last

\* validator(changesSummary) returns; `every` stops at the first false and
\* the entry's callback is not called.
ExecuteValidatorReturns(result) ==
  /\ stack # <<>>
  /\ Top.pc = "executing"
  /\ shouldValidate(Top)
  /\ LET validator == Head(Top.callbacks).value[Top.validated + 1]
         logged == Append(Top.log,
                          ValidatorCall(validator, Head(Top.callbacks).key,
                                        Top.changesSummary, result))
     IN /\ IsFunction(validator)
        /\ IF result
           THEN /\ stack' = Append(Below, [Top EXCEPT !.log = logged,
                                                     !.validated = @ + 1])
                /\ UNCHANGED last
           ELSE ExecuteGoesOn([Top EXCEPT !.log = logged, !.validated = 0,
                                          !.callbacks = Tail(@)])
  /\ UNCHANGED <<managerVars, timers, call, pureIn, pureOut>>

\* The validator to call is the null of a group without one: calling it is
\* a TypeError, which ends the forEach and executeCallbacks.
ExecuteValidatorThrows ==
  /\ stack # <<>>
  /\ Top.pc = "executing"
  /\ shouldValidate(Top)
  /\ ~IsFunction(Head(Top.callbacks).value[Top.validated + 1])
  /\ stack' = Below
  /\ last' = [Top EXCEPT !.pc = "thrown"]
  /\ UNCHANGED <<managerVars, timers, call, pureIn, pureOut>>

\* shouldExecuteCallback is true: callback.call(this.component, changesSummary).
ExecuteCallbackReturns ==
  /\ stack # <<>>
  /\ Top.pc = "executing"
  /\ ~shouldValidate(Top)
  /\ ExecuteGoesOn(
       [Top EXCEPT !.log = Append(@, CallbackCall(Head(Top.callbacks).key,
                                                  Top.changesSummary)),
                   !.validated = 0,
                   !.callbacks = Tail(@)])
  /\ UNCHANGED <<managerVars, timers, call, pureIn, pureOut>>

\* a property whose name holds the character that joins a group id
PropAB == <<"a", "|", "b">>

ExecuteKeyLists == KeyLists \cup {<<PropAB>>}

ExecuteParameters ==
  {Undefined}
    \cup {[shape |-> "array", entries |-> e] :
            e \in UNION {[1..n -> [keys : ExecuteKeyLists, config : Configs]] :
                           n \in 0..MaxDeclarations}}
    \cup {[shape |-> "object", entries |-> e] :
            e \in {x \in UNION {[1..n -> [key : ReportedProperties \cup {PropAB},
                                           config : Configs]] :
                                  n \in 0..MaxDeclarations} :
                     \A i, j \in DOMAIN x : x[i].key = x[j].key => i = j}}

\* A manager made with the defaults of strict and debounceDelay and with a
\* hook, for a component of three properties that hold different values.
InitExecute ==
  /\ component = [p \in ReportedProperties \cup {PropAB} |->
                    IF p = PropA THEN Primitive("x")
                    ELSE IF p = PropB THEN Primitive("y")
                    ELSE Object("{}", 1)]
  /\ strict = TRUE
  /\ debounceDelay = Primitive("0")
  /\ onChanges = Function("onChanges")
  /\ \E parameter \in ExecuteParameters :
       LET fields == setCallbacksConfig(parameter, FieldDefaults)
       IN /\ callbacksConfig = fields.callbacksConfig
          /\ propertiesByGroup = fields.propertiesByGroup
          /\ callbacksByGroup = fields.callbacksByGroup
  /\ timers = <<>>
  /\ stack = <<>>
  /\ call = NoCall
  /\ last = NoCall
  /\ pureIn = NoCall
  /\ pureOut = NoCall

\* executeCallbacks called while a timer may be pending.
NextExecute ==
  \/ DetectChangesDebounced
  \/ DetectChangesTimerFires
  \/ \E avoidValidations \in BOOLEAN : ExecuteCallbacks(avoidValidations)
  \/ \E result \in BOOLEAN : ExecuteValidatorReturns(result)
  \/ ExecuteValidatorThrows
  \/ ExecuteCallbackReturns

SpecExecute == InitExecute /\ [][NextExecute]_vars

-----------------------------------------------------------------------------
(* The callbacks configuration on its own: the constructor's call of       *)
(* setCallbacksConfig, and calls of it made afterwards, with parameters    *)
(* of every form: key lists in and out of order and with a key repeated,   *)
(* functions, and { callback, validator } objects with and without a       *)
(* validator.                                                               *)

\* the group of a, and the group of a and b in three writings
RegistryKeyLists ==
  KeyLists \cup {<<PropA, PropB>>, <<PropA, PropB, PropA>>}

\* h1 and h2 as they are, h1 with a validator, and { callback: h2 }
RegistryConfigs ==
  Handlers \cup {CallbackConfig(Function("h1"), Function("v1")),
                 CallbackConfig(Function("h2"), Undefined)}

RegistryParameters ==
  {[shape |-> "array", entries |-> e] :
     e \in UNION {[1..n -> [keys : RegistryKeyLists, config : RegistryConfigs]] :
                    n \in 0..MaxDeclarations}}
    \cup {[shape |-> "object", entries |-> e] :
            e \in {x \in UNION {[1..n -> [key : ReportedProperties,
                                           config : RegistryConfigs]] :
                                  n \in 0..MaxDeclarations} :
                     \A i, j \in DOMAIN x : x[i].key = x[j].key => i = j}}

\* the parameters of the later calls: a TCallbacksConfigParameter of no
\* group, of one group in array form, or in object form
Reconfigurations ==
  {parameter \in RegistryParameters :
     parameter.shape = "array" => Len(parameter.entries) <= 1}

InitRegistry ==
  /\ component = [p \in ReportedProperties |-> Primitive("x")]
  /\ strict = TRUE
  /\ debounceDelay = Primitive("0")
  /\ onChanges = Undefined
  /\ \E parameter \in {Undefined} \cup RegistryParameters :
       LET fields == setCallbacksConfig(parameter, FieldDefaults)
       IN /\ callbacksConfig = fields.callbacksConfig
          /\ propertiesByGroup = fields.propertiesByGroup
          /\ callbacksByGroup = fields.callbacksByGroup
          /\ pureIn = [fn |-> "constructor", arg |-> parameter]
  /\ timers = <<>>
  /\ stack = <<>>
  /\ call = NoCall
  /\ last = NoCall
  /\ pureOut = NoCall

\* this.setCallbacksConfig(parameter), called on the manager once more.
SetCallbacksConfig(parameter) ==
  /\ stack = <<>>
  /\ LET fields == setCallbacksConfig(parameter,
                     [callbacksConfig |-> callbacksConfig,
                      propertiesByGroup |-> propertiesByGroup,
                      callbacksByGroup |-> callbacksByGroup])
     IN /\ callbacksConfig' = fields.callbacksConfig
        /\ propertiesByGroup' = fields.propertiesByGroup
        /\ callbacksByGroup' = fields.callbacksByGroup
  /\ pureIn' = [fn |-> "setCallbacksConfig", arg |-> parameter]
  /\ UNCHANGED <<component, strict, debounceDelay, onChanges, timers, stack,
                 call, last, pureOut>>

NextRegistry == \E parameter \in Reconfigurations : SetCallbacksConfig(parameter)

SpecRegistry == InitRegistry /\ [][NextRegistry]_vars

-----------------------------------------------------------------------------
(* Exceptions.  A validator or a handler may throw instead of returning,   *)
(* and calling what is not a function is a TypeError.  Nothing in the      *)
(* class catches: the exception leaves forEach, executeChangesCallbacks    *)
(* and _manageChanges, and arrives at whoever called _manageChanges: the   *)
(* caller of manageChanges, or the runtime when a timer made the call.     *)

\* what a call that raised gives its caller
Thrown == [type |-> "thrown"]

\* the call of fn that threw; `by` tells what was being called
ThrowingCall(by, fn) == [type |-> "throw", by |-> by, fn |-> fn]

\* _manageChanges ends by an exception.
Throw(activation) ==
  /\ stack' = Below
  /\ last' = [activation EXCEPT !.pc = "thrown"]
  /\ call' = IF activation.from = "call"
             THEN [call EXCEPT !.returned = Thrown]
             ELSE call

\* validator(changesSummary) throws.
ValidatorThrows ==
  /\ stack # <<>>
  /\ Top.pc = "callbacks"
  /\ Top.callbacks # <<>>
  /\ Top.validated < Len(Head(Top.callbacks).value)
  /\ Throw([Top EXCEPT !.log =
            Append(@, ThrowingCall("validator",
                                   Head(Top.callbacks).value[Top.validated + 1]))])
  /\ UNCHANGED <<managerVars, timers, pureIn, pureOut>>

\* A handler whose exception is caught, the forEach going on.
CallbackThrowsCaught ==
  /\ stack # <<>>
  /\ Top.pc = "callbacks"
  /\ Top.callbacks # <<>>
  /\ Top.validated = Len(Head(Top.callbacks).value)
  /\ IsFunction(Head(Top.callbacks).key)
  /\ stack' = Append(Below,
       [Top EXCEPT !.log = Append(@, ThrowingCall("handler", Head(Top.callbacks).key)),
                   !.validated = 0,
                   !.callbacks = Tail(@)])
  /\ UNCHANGED <<managerVars, timers, call, last, pureIn, pureOut>>

\* callback.call(this.component, changesSummary) throws.
CallbackThrows ==
  /\ stack # <<>>
  /\ Top.pc = "callbacks"
  /\ Top.callbacks # <<>>
  /\ Top.validated = Len(Head(Top.callbacks).value)
  /\ IsFunction(Head(Top.callbacks).key)
  /\ Throw([Top EXCEPT !.log =
            Append(@, ThrowingCall("handler", Head(Top.callbacks).key))])
  /\ UNCHANGED <<managerVars, timers, pureIn, pureOut>>

\* The callback of the entry is not a function: callback.call is a
\* TypeError.
CallbackIsNotCallable ==
  /\ stack # <<>>
  /\ Top.pc = "callbacks"
  /\ Top.callbacks # <<>>
  /\ Top.validated = Len(Head(Top.callbacks).value)
  /\ ~IsFunction(Head(Top.callbacks).key)
  /\ Throw([Top EXCEPT !.log =
            Append(@, ThrowingCall("TypeError", Head(Top.callbacks).key))])
  /\ UNCHANGED <<managerVars, timers, pureIn, pureOut>>

\* declarations that are neither a function nor an object with a callback:
\* a number, and an object with a validator only
MalformedConfigs == {Primitive("5"), CallbackConfig(Undefined, Function("v1"))}

MalformedParameters ==
  {[shape |-> "array", entries |-> e] :
     e \in UNION {[1..n -> [keys : KeyLists,
                            config : MalformedConfigs \cup {Function("h1")}]] :
                    n \in 1..MaxDeclarations}}

InitThrows ==
  /\ component = [p \in ReportedProperties |-> Primitive("x")]
  /\ strict \in BOOLEAN
  /\ debounceDelay \in {Primitive("0"), NotANumber}
  /\ onChanges \in {Undefined, Function("onChanges")}
  /\ \E parameter \in CallbackParameters \cup MalformedParameters :
       LET fields == setCallbacksConfig(parameter, FieldDefaults)
       IN /\ callbacksConfig = fields.callbacksConfig
          /\ propertiesByGroup = fields.propertiesByGroup
          /\ callbacksByGroup = fields.callbacksByGroup
  /\ timers = <<>>
  /\ stack = <<>>
  /\ call = NoCall
  /\ last = NoCall
  /\ pureIn = NoCall
  /\ pureOut = NoCall

NextThrows ==
  \/ Next
  \/ ValidatorThrows
  \/ CallbackThrows
  \/ CallbackIsNotCallable

SpecThrows == InitThrows /\ [][NextThrows]_vars

-----------------------------------------------------------------------------
(* Construction: new ChangesManager(options) as a step of its own.  Before *)
(* it the fields hold what their initializers give them; the options the   *)
(* host is about to pass are held in pureIn, an option that is left out    *)
(* being undefined.                                                        *)

\* a destructured option and its default: `name = default`
OptionOr(value, default) == IF value = Undefined THEN default ELSE value

\* A debounce(callback, wait) whose timer is started when it is created.
debounceStartingItsTimer(queue, fn) == setTimeout(queue, fn, NoArguments)

\* debounce(callback, wait) itself: `let timer`, and the function returned.
debounceCreating(queue, fn) == queue

TheComponent == [p \in ReportedProperties |-> Primitive("x")]

ConstructCallbacks ==
  {[shape |-> "array",
    entries |-> <<[keys |-> <<PropA>>, config |-> Function("h1")]>>],
   [shape |-> "object",
    entries |-> <<[key |-> PropB,
                   config |-> CallbackConfig(Function("h1"), Function("v1"))]>>]}

False == [type |-> "boolean", val |-> FALSE]
True == [type |-> "boolean", val |-> TRUE]

\* the options of the constructor: component always, each of the others
\* given or left undefined
ConstructOptions ==
  [component : {TheComponent},
   callbacks : {Undefined} \cup ConstructCallbacks,
   debounceDelay : {Undefined, Primitive("0"), NotANumber},
   strict : {Undefined, False},
   onChanges : {Undefined, Function("onChanges")}]

Constructed == pureOut # NoCall

\* this.component before the constructor assigns it: nothing to read from
Unassigned == [p \in {} |-> Undefined]

InitConstruct ==
  /\ component = Unassigned
  /\ strict = TRUE
  /\ debounceDelay = Undefined
  /\ onChanges = Undefined
  /\ callbacksConfig = FieldDefaults.callbacksConfig
  /\ propertiesByGroup = FieldDefaults.propertiesByGroup
  /\ callbacksByGroup = FieldDefaults.callbacksByGroup
  /\ timers = <<>>
  /\ stack = <<>>
  /\ call = NoCall
  /\ last = NoCall
  /\ pureIn \in {[fn |-> "constructor", arg |-> o] : o \in ConstructOptions}
  /\ pureOut = NoCall

\* new ChangesManager(options)
Construct ==
  /\ ~Constructed
  /\ LET options == pureIn.arg
         fields == setCallbacksConfig(options.callbacks, FieldDefaults)
     IN /\ component' = options.component
        /\ strict' = OptionOr(options.strict, True).val
        /\ onChanges' = options.onChanges
        /\ debounceDelay' = OptionOr(options.debounceDelay, Primitive("0"))
        /\ timers' = debounceCreating(debounceCreating(timers, "detectChanges"),
                                      "manageChanges")
        /\ callbacksConfig' = fields.callbacksConfig
        /\ propertiesByGroup' = fields.propertiesByGroup
        /\ callbacksByGroup' = fields.callbacksByGroup
  /\ pureOut' = [fn |-> "constructor"]
  /\ UNCHANGED <<stack, call, last, pureIn>>

\* The host calls manageChanges with the SimpleChanges of some cycle.
ManageChangesCall == \E simpleChanges \in CycleChanges : ManageChanges(simpleChanges)

NextConstruct ==
  \/ Construct
  \/ Constructed /\ Next

SpecConstruct == InitConstruct /\ [][NextConstruct]_vars

-----------------------------------------------------------------------------
(* The host's own timers.  The host schedules setTimeout(f, 0) callbacks  *)
(* in the queue the manager's timers are in, and calls manageChanges once; *)
(* a host timer remembers whether that call had been made when it was      *)
(* scheduled.                                                              *)

MaxHostTimers == 2

HostTimers == {i \in DOMAIN timers : timers[i].fn = "host"}

\* The host calls setTimeout(f, 0).
HostSetTimeout ==
  /\ stack = <<>>
  /\ Cardinality(HostTimers) < MaxHostTimers
  /\ timers' = setTimeout(timers, "host", [afterCall |-> call # NoCall])
  /\ UNCHANGED <<managerVars, stack, call, last, pureIn, pureOut>>

\* A timer of the host fires; its callback calls nothing of the manager.
HostTimerFires ==
  /\ stack = <<>>
  /\ timers # <<>>
  /\ Head(timers).fn = "host"
  /\ timers' = Tail(timers)
  /\ UNCHANGED <<managerVars, stack, call, last, pureIn, pureOut>>

NextTimers ==
  \/ Construct
  \/ Constructed /\ call = NoCall /\ \E simpleChanges \in CycleChanges :
                                        ManageChanges(simpleChanges)
  \/ Constructed /\ TimerFires
  \/ \E result \in BOOLEAN : ValidatorReturns(result)
  \/ CallbackReturns
  \/ DetectChangesReturns
  \/ OnChangesReturns
  \/ Constructed /\ HostSetTimeout
  \/ HostTimerFires

SpecTimers == InitConstruct /\ [][NextTimers]_vars

-----------------------------------------------------------------------------
(* The three entry points to the re-render together: manageChanges, the    *)
(* debounced detectChangesDebounced and the immediate detectChanges.       *)

\* The host calls detectChanges(): this.changeDetectorRef.detectChanges().
DetectChanges ==
  /\ stack = <<>>
  /\ last' = [from |-> "detectChanges", pc |-> "done", log |-> <<DetectChangesCall>>]
  /\ UNCHANGED <<managerVars, timers, stack, call, pureIn, pureOut>>

NextIndependent ==
  \/ Construct
  \/ Constructed /\ \E simpleChanges \in CycleChanges : ManageChanges(simpleChanges)
  \/ TimerFires
  \/ \E result \in BOOLEAN : ValidatorReturns(result)
  \/ CallbackReturns
  \/ DetectChangesReturns
  \/ OnChangesReturns
  \/ Constructed /\ DetectChangesDebounced
  \/ DetectChangesTimerFires
  \/ Constructed /\ DetectChanges

SpecIndependent == InitConstruct /\ [][NextIndependent]_vars

-----------------------------------------------------------------------------
(* The two debounced functions under a host that lets things happen: a     *)
(* timer that is due is run by the event loop, and a validator, a          *)
(* callback, the change detector and onChanges return.  Nothing is         *)
(* assumed of the host's own calls.                                        *)

NextEventually ==
  \/ Construct
  \/ Constructed /\ ManageChangesCall
  \/ TimerFires
  \/ \E result \in BOOLEAN : ValidatorReturns(result)
  \/ CallbackReturns
  \/ DetectChangesReturns
  \/ OnChangesReturns
  \/ Constructed /\ DetectChangesDebounced
  \/ DetectChangesTimerFires

\* Each call of the host is a task of its own and the event loop runs the
\* timer that is due between two tasks: a timer that is due again and
\* again, whenever no call is running, is run.
EventLoopRuns ==
  /\ SF_vars(TimerFires)
  /\ SF_vars(DetectChangesTimerFires)

CallbacksReturn ==
  /\ WF_vars(\E result \in BOOLEAN : ValidatorReturns(result))
  /\ WF_vars(CallbackReturns)
  /\ WF_vars(DetectChangesReturns)
  /\ WF_vars(OnChangesReturns)

SpecEventually ==
  InitConstruct /\ [][NextEventually]_vars /\ EventLoopRuns /\ CallbacksReturn

-----------------------------------------------------------------------------
(* The Registry replaced while a cycle is awaited: the host calls the      *)
(* debounced manageChanges, and before the timer fires setCallbacksConfig  *)
(* is called on the manager once more.  pureOut keeps the two maps the     *)
(* call replaced, which are those the manager had when manageChanges was   *)
(* called, no call of manageChanges being made after the replacement.      *)

ReplacedParameters ==
  {[shape |-> "array", entries |-> <<[keys |-> k, config |-> c]>>] :
     k \in KeyLists,
     c \in Handlers \cup {CallbackConfig(Function("h1"), Function("v1"))}}

InitReplaced ==
  /\ component = TheComponent
  /\ strict \in BOOLEAN
  /\ debounceDelay = Primitive("0")
  /\ onChanges \in {Undefined, Function("onChanges")}
  /\ \E parameter \in ReplacedParameters :
       LET fields == setCallbacksConfig(parameter, FieldDefaults)
       IN /\ callbacksConfig = fields.callbacksConfig
          /\ propertiesByGroup = fields.propertiesByGroup
          /\ callbacksByGroup = fields.callbacksByGroup
          /\ pureIn = [fn |-> "constructor", arg |-> parameter]
  /\ timers = <<>>
  /\ stack = <<>>
  /\ call = NoCall
  /\ last = NoCall
  /\ pureOut = NoCall

\* this.setCallbacksConfig(parameter) between a call of manageChanges and
\* the firing of its timer.
SetCallbacksConfigWhilePending(parameter) ==
  /\ stack = <<>>
  /\ \E i \in DOMAIN timers : timers[i].fn = "manageChanges"
  /\ pureOut = NoCall
  /\ LET fields == setCallbacksConfig(parameter,
                     [callbacksConfig |-> callbacksConfig,
                      propertiesByGroup |-> propertiesByGroup,
                      callbacksByGroup |-> callbacksByGroup])
     IN /\ callbacksConfig' = fields.callbacksConfig
        /\ propertiesByGroup' = fields.propertiesByGroup
        /\ callbacksByGroup' = fields.callbacksByGroup
  /\ pureIn' = [fn |-> "setCallbacksConfig", arg |-> parameter]
  /\ pureOut' = [fn |-> "setCallbacksConfig",
                 propertiesByGroup |-> propertiesByGroup,
                 callbacksByGroup |-> callbacksByGroup]
  /\ UNCHANGED <<component, strict, debounceDelay, onChanges, timers, stack,
                 call, last>>

NextReplaced ==
  \/ pureOut = NoCall /\ ManageChangesCall
  \/ TimerFires
  \/ \E result \in BOOLEAN : ValidatorReturns(result)
  \/ CallbackReturns
  \/ DetectChangesReturns
  \/ OnChangesReturns
  \/ \E parameter \in ReplacedParameters : SetCallbacksConfigWhilePending(parameter)

SpecReplaced == InitReplaced /\ [][NextReplaced]_vars

-----------------------------------------------------------------------------
(* Group ids of property names that hold the separator.  The manager is    *)
(* configured with groups of a and b, in both orders, and with the group   *)
(* of the one property named 'a|b'.                                        *)

SeparatorKeyLists == {<<PropA>>, <<PropA, PropB>>, <<PropB, PropA>>, <<PropAB>>}

SeparatorParameters ==
  {[shape |-> "array", entries |-> e] :
     e \in UNION {[1..n -> [keys : SeparatorKeyLists,
                             config : Handlers
                               \cup {CallbackConfig(Function("h1"), Function("v1"))}]] :
                    n \in 1..MaxDeclarations}}

InitSeparator ==
  /\ component = [p \in ReportedProperties \cup {PropAB} |-> Primitive("x")]
  /\ strict = TRUE
  /\ debounceDelay = Primitive("0")
  /\ onChanges = Undefined
  /\ \E parameter \in SeparatorParameters :
       LET fields == setCallbacksConfig(parameter, FieldDefaults)
       IN /\ callbacksConfig = fields.callbacksConfig
          /\ propertiesByGroup = fields.propertiesByGroup
          /\ callbacksByGroup = fields.callbacksByGroup
          /\ pureIn = [fn |-> "constructor", arg |-> parameter]
  /\ timers = <<>>
  /\ stack = <<>>
  /\ call = NoCall
  /\ last = NoCall
  /\ pureOut = NoCall

NextSeparator ==
  \E parameter \in SeparatorParameters :
    Len(parameter.entries) = 1 /\ SetCallbacksConfig(parameter)

SpecSeparator == InitSeparator /\ [][NextSeparator]_vars

-----------------------------------------------------------------------------
(* A call of the debounced manageChanges made while the timer of an        *)
(* earlier call is pending.  pureOut keeps the SimpleChanges of the call   *)
(* whose timer was cleared.                                                *)

ManageChangesPending == \E i \in DOMAIN timers : timers[i].fn = "manageChanges"

\* manageChanges(simpleChanges) before the timer of the previous call fired
ManageChangesAgain(simpleChanges) ==
  /\ stack = <<>>
  /\ shouldDebounceDetection
  /\ ManageChangesPending
  /\ timers' = debounce(timers, "manageChanges", simpleChanges)
  /\ call' = [simpleChanges |-> simpleChanges, returned |-> Undefined]
  /\ last' = NoCall
  /\ pureOut' = [fn |-> "manageChanges",
                 superseded |-> SelectSeq(timers, LAMBDA t : t.fn = "manageChanges")[1].args]
  /\ UNCHANGED <<managerVars, stack, pureIn>>

NextSuperseded ==
  \/ ~ManageChangesPending /\ ManageChangesCall
  \/ \E simpleChanges \in CycleChanges : ManageChangesAgain(simpleChanges)
  \/ TimerFires
  \/ \E result \in BOOLEAN : ValidatorReturns(result)
  \/ CallbackReturns
  \/ DetectChangesReturns
  \/ OnChangesReturns

SpecSuperseded == InitReplaced /\ [][NextSuperseded]_vars

-----------------------------------------------------------------------------
(* manageChanges called from inside a cycle: by a validator, by a callback *)
(* or by onChanges, while the cycle that called them waits for them to     *)
(* return.  The debounced manageChanges sets its timer and returns; the    *)
(* one that is not debounced is _manageChanges and runs its cycle before   *)
(* it returns to the function that called it.                              *)

MaxNesting == 2

\* what the host and the callbacks report: a change of a, a change of b
\* with a notification of a's value, and nothing
NestedChanges ==
  {[p \in {PropA} |-> SimpleChange(Primitive("x"), Primitive("y"), FALSE)],
   [p \in {PropA, PropB} |->
      IF p = PropB THEN SimpleChange(Primitive("x"), Primitive("y"), FALSE)
      ELSE SimpleChange(Primitive("x"), Primitive("x"), FALSE)],
   [p \in {} |-> Undefined]}

InitNested ==
  /\ component = TheComponent
  /\ strict \in BOOLEAN
  /\ debounceDelay \in {Primitive("0"), NotANumber}
  /\ onChanges \in {Undefined, Function("onChanges")}
  /\ \E parameter \in ReplacedParameters :
       LET fields == setCallbacksConfig(parameter, FieldDefaults)
       IN /\ callbacksConfig = fields.callbacksConfig
          /\ propertiesByGroup = fields.propertiesByGroup
          /\ callbacksByGroup = fields.callbacksByGroup
  /\ timers = <<>>
  /\ stack = <<>>
  /\ call = NoCall
  /\ last = NoCall
  /\ pureIn = NoCall
  /\ pureOut = NoCall

\* the cycle at the top of the stack is inside a validator, a callback or
\* onChanges
InsideACallback ==
  /\ stack # <<>>
  /\ \/ Top.pc = "callbacks" /\ Top.callbacks # <<>>
     \/ Top.pc = "onChanges"

\* A validator, a callback or onChanges calls manageChanges(simpleChanges).
\* `call` stays the call of the host.
ManageChangesWithin(simpleChanges) ==
  /\ InsideACallback
  /\ IF shouldDebounceDetection
     THEN /\ timers' = debounce(timers, "manageChanges", simpleChanges)
          /\ UNCHANGED <<stack, last>>
     ELSE LET activation == Activation("callback", simpleChanges)
          IN /\ Len(stack) < MaxNesting
             /\ UNCHANGED timers
             /\ IF activation.pc = "done"
                THEN /\ last' = activation
                     /\ UNCHANGED stack
                ELSE /\ stack' = Append(stack, activation)
                     /\ UNCHANGED last
  /\ UNCHANGED <<managerVars, call, pureIn, pureOut>>

NextNested ==
  \/ \E simpleChanges \in NestedChanges : ManageChanges(simpleChanges)
  \/ \E simpleChanges \in NestedChanges : ManageChangesWithin(simpleChanges)
  \/ TimerFires
  \/ \E result \in BOOLEAN : ValidatorReturns(result)
  \/ CallbackReturns
  \/ DetectChangesReturns
  \/ OnChangesReturns

SpecNested == InitNested /\ [][NextNested]_vars

-----------------------------------------------------------------------------
(* The two maps over the life of a manager: built by the constructor,      *)
(* built again by setCallbacksConfig, and read by the cycles of            *)
(* manageChanges and by executeCallbacks.                                  *)

MapsKeyLists == KeyLists \cup {<<PropA, PropB, PropA>>}

MapsParameters ==
  {[shape |-> "array", entries |-> e] :
     e \in UNION {[1..n -> [keys : MapsKeyLists,
                             config : Handlers
                               \cup {CallbackConfig(Function("h1"), Function("v1"))}]] :
                    n \in 1..MaxDeclarations}}

InitMaps ==
  /\ component = TheComponent
  /\ strict = TRUE
  /\ debounceDelay = Primitive("0")
  /\ onChanges = Function("onChanges")
  /\ \E parameter \in MapsParameters :
       LET fields == setCallbacksConfig(parameter, FieldDefaults)
       IN /\ callbacksConfig = fields.callbacksConfig
          /\ propertiesByGroup = fields.propertiesByGroup
          /\ callbacksByGroup = fields.callbacksByGroup
          /\ pureIn = [fn |-> "constructor", arg |-> parameter]
  /\ timers = <<>>
  /\ stack = <<>>
  /\ call = NoCall
  /\ last = NoCall
  /\ pureOut = NoCall

Reconfigure ==
  \E parameter \in MapsParameters :
    Len(parameter.entries) = 1 /\ SetCallbacksConfig(parameter)

NextMaps ==
  \/ Reconfigure
  \/ \E simpleChanges \in NestedChanges : ManageChanges(simpleChanges)
  \/ TimerFires
  \/ \E result \in BOOLEAN : ValidatorReturns(result)
  \/ CallbackReturns
  \/ DetectChangesReturns
  \/ OnChangesReturns
  \/ \E avoidValidations \in BOOLEAN : ExecuteCallbacks(avoidValidations)
  \/ \E result \in BOOLEAN : ExecuteValidatorReturns(result)
  \/ ExecuteValidatorThrows
  \/ ExecuteCallbackReturns

SpecMaps == InitMaps /\ [][NextMaps]_vars

-----------------------------------------------------------------------------
(* What the claims speak of.                                               *)

\* the activations there are: the running ones and the last one that ended
Cycles == SetOf(stack) \cup (IF last = NoCall THEN {} ELSE {last})

\* an activation that reached executeChangesCallbacks and ran to its end
Completed(c) == c.pc = "done" /\ c.processed

Positions(c, type) == {i \in DOMAIN c.log : c.log[i].type = type}

Invocations(c, h) == {i \in Positions(c, "handler") : c.log[i].fn = h}

RegisteredHandlers == {callbacksByGroup[i].value.callback : i \in DOMAIN callbacksByGroup}

\* The groups of the Registry that a batch triggers, said from the
\* Registry's two maps: a member of the group's field set is in the batch
\* with didChange = true.
Triggered(c) ==
  {i \in DOMAIN callbacksByGroup :
     \E j \in DOMAIN propertiesByGroup :
       /\ propertiesByGroup[j].key = callbacksByGroup[i].key
       /\ \E f \in propertiesByGroup[j].value :
            /\ f \in DOMAIN c.changesSummary
            /\ c.changesSummary[f].didChange}

TriggeredGroupsOf(c, h) == {i \in Triggered(c) : callbacksByGroup[i].value.callback = h}

ChangedFields(c) ==
  {f \in DOMAIN c.changesSummary : c.changesSummary[f].didChange}

-----------------------------------------------------------------------------
\* C1: in a cycle each distinct handler is invoked at most once, however
\* many of its fields changed and however many triggered groups map to it.
C1_HandlerAtMostOnce ==
  \A c \in Cycles : \A h \in RegisteredHandlers : Cardinality(Invocations(c, h)) <= 1

\* Two fields changed, two triggered groups map to one handler, and the
\* cycle is over with that handler invoked.
C1_Witness ==
  /\ last # NoCall
  /\ Completed(last)
  /\ Cardinality(ChangedFields(last)) >= 2
  /\ \E h \in RegisteredHandlers :
       /\ Cardinality(TriggeredGroupsOf(last, h)) >= 2
       /\ Cardinality(Invocations(last, h)) = 1

-----------------------------------------------------------------------------
\* C2: every processed cycle invokes the re-render action exactly once, and
\* only after all handler invocations of that cycle; this holds for any
\* number of handlers that ran, zero included.
C2_RerenderOnceAfterHandlers ==
  \A c \in Cycles :
    /\ Cardinality(Positions(c, "detectChanges")) <= 1
    /\ Completed(c) => Cardinality(Positions(c, "detectChanges")) = 1
    /\ \A i \in Positions(c, "detectChanges") :
         \A j \in Positions(c, "handler") \cup Positions(c, "validator") : j < i

\* A processed cycle is over in which a group triggered, its validator
\* rejected, no handler ran, and the re-render action was invoked.
C2_Witness ==
  /\ last # NoCall
  /\ Completed(last)
  /\ Triggered(last) # {}
  /\ Positions(last, "handler") = {}
  /\ \E i \in Positions(last, "validator") : ~last.log[i].result
  /\ Cardinality(Positions(last, "detectChanges")) = 1

\* C3: with strict = true a cycle whose batch has no field with didChange =
\* true invokes no handler, no validator, no post-cycle hook and not the
\* re-render action; with strict = false it still invokes the re-render
\* action exactly once, with zero handlers.
C3_StrictSuppresses ==
  \A c \in Cycles :
    ChangedFields(c) = {} =>
      /\ strict => c.log = <<>> /\ ~c.processed /\ c.pc = "done"
      /\ ~strict =>
           /\ Positions(c, "handler") = {}
           /\ Positions(c, "validator") = {}
           /\ c.pc = "done" => Cardinality(Positions(c, "detectChanges")) = 1

\* A strict manager with registered groups was given a batch of reported
\* but unchanged fields.
C3_Witness ==
  /\ last # NoCall
  /\ strict
  /\ callbacksByGroup # <<>>
  /\ onChanges # Undefined
  /\ DOMAIN last.changesSummary = ReportedProperties
  /\ ChangedFields(last) = {}
  /\ last.log = <<>>

\* The same batch given to a manager that is not strict.
C3_WitnessNotStrict ==
  /\ last # NoCall
  /\ ~strict
  /\ callbacksByGroup # <<>>
  /\ DOMAIN last.changesSummary = ReportedProperties
  /\ ChangedFields(last) = {}
  /\ Cardinality(Positions(last, "detectChanges")) = 1

-----------------------------------------------------------------------------
\* the handlers every one of whose groups was registered without a validator
WithoutValidators ==
  {h \in RegisteredHandlers :
     \A i \in DOMAIN callbacksByGroup :
       callbacksByGroup[i].value.callback = h => callbacksByGroup[i].value.validator = Null}

\* the validators of the triggered groups that map to h
TriggeredValidatorsOf(c, h) ==
  {callbacksByGroup[i].value.validator : i \in TriggeredGroupsOf(c, h)} \ {Null}

\* the field set the Registry holds for the i-th group
GroupFields(i) == MapGet(propertiesByGroup, callbacksByGroup[i].key)

\* C4: a group is triggered iff a member of its field set is in the batch
\* with didChange = true, and a handler registered without validators is
\* invoked in a cycle iff one of its groups is triggered.
C4_TriggeredIffMemberChanged ==
  \A c \in Cycles :
    /\ \A i \in DOMAIN callbacksByGroup :
         shouldIncludeGroup(callbacksByGroup[i].key, c.changesSummary)
           <=> GroupFields(i) \cap ChangedFields(c) # {}
    /\ Completed(c) =>
         \A h \in WithoutValidators :
           Invocations(c, h) # {}
             <=> \E i \in DOMAIN callbacksByGroup :
                   /\ callbacksByGroup[i].value.callback = h
                   /\ GroupFields(i) \cap ChangedFields(c) # {}

\* A group on {a, b} fired when only b changed, and another handler, whose
\* only group had no changed field, did not.
C4_Witness ==
  /\ last # NoCall
  /\ Completed(last)
  /\ ChangedFields(last) = {PropB}
  /\ \E i, j \in DOMAIN callbacksByGroup :
       /\ GroupFields(i) = {PropA, PropB}
       /\ callbacksByGroup[i].value.callback \in WithoutValidators
       /\ Invocations(last, callbacksByGroup[i].value.callback) # {}
       /\ GroupFields(j) = {PropA}
       /\ callbacksByGroup[j].value.callback \in WithoutValidators
       /\ Invocations(last, callbacksByGroup[j].value.callback) = {}

\* the calls of validators made for the entry of h
ValidationsOf(c, h) == {i \in Positions(c, "validator") : c.log[i].gates = h}

\* C5: when a handler is reachable through several triggered groups, the
\* validators of all of them are collected, and the handler is invoked only
\* if every one of them returned true; if one returned false it is not.
C5_AllValidatorsMustApprove ==
  \A c \in Cycles :
    \A h \in RegisteredHandlers :
      /\ \A i \in Invocations(c, h) :
           \A v \in TriggeredValidatorsOf(c, h) :
             \E j \in ValidationsOf(c, h) :
               j < i /\ c.log[j].fn = v /\ c.log[j].result
      /\ (\E j \in ValidationsOf(c, h) : ~c.log[j].result) => Invocations(c, h) = {}
      /\ \A j \in ValidationsOf(c, h) : c.log[j].fn \in TriggeredValidatorsOf(c, h)

\* A handler reached through two triggered groups with two validators ran
\* after both approved.
C5_Witness ==
  /\ last # NoCall
  /\ Completed(last)
  /\ \E h \in RegisteredHandlers :
       /\ Cardinality(TriggeredGroupsOf(last, h)) >= 2
       /\ Cardinality(TriggeredValidatorsOf(last, h)) >= 2
       /\ Invocations(last, h) # {}

\* The same handler did not run because the second validator rejected.
C5_WitnessRejected ==
  /\ last # NoCall
  /\ Completed(last)
  /\ \E h \in RegisteredHandlers :
       /\ Cardinality(TriggeredValidatorsOf(last, h)) >= 2
       /\ Cardinality(ValidationsOf(last, h)) >= 2
       /\ Invocations(last, h) = {}

\* C6: a validator returning false suppresses only its own handler: every
\* other handler whose groups triggered and whose validators all pass is
\* still invoked in the cycle, and the re-render action is invoked once.
C6_RejectionIsLocal ==
  \A c \in Cycles :
    (Completed(c) /\ \E j \in Positions(c, "validator") : ~c.log[j].result) =>
      /\ \A h \in RegisteredHandlers :
           (/\ TriggeredGroupsOf(c, h) # {}
            /\ \A j \in ValidationsOf(c, h) : c.log[j].result)
             => Cardinality(Invocations(c, h)) = 1
      /\ Cardinality(Positions(c, "detectChanges")) = 1

\* One handler's validator rejected, and another handler, whose entry comes
\* later, ran in the same cycle.
C6_Witness ==
  /\ last # NoCall
  /\ Completed(last)
  /\ \E j \in Positions(last, "validator"), i \in Positions(last, "handler") :
       /\ ~last.log[j].result
       /\ j < i
       /\ last.log[i].fn # last.log[j].gates

\* what a ChangeBatch says of the raw input it was computed from: an entry
\* for every reported field and for no other, each with the notification's
\* values and a didChange flag
FullBatchOf(batch, simpleChanges) ==
  /\ DOMAIN batch = DOMAIN simpleChanges
  /\ \A f \in DOMAIN simpleChanges :
       /\ DOMAIN batch[f] = {"previousValue", "currentValue", "firstChange", "didChange"}
       /\ batch[f].previousValue = simpleChanges[f].previousValue
       /\ batch[f].currentValue = simpleChanges[f].currentValue
       /\ batch[f].firstChange = simpleChanges[f].firstChange
       /\ batch[f].didChange \in BOOLEAN

\* C7: every handler and every validator invoked in a cycle receives the
\* cycle's full ChangeBatch (an entry for every reported field, changed or
\* not, watched or not, and none for an unreported field), and the handler
\* is called with the host component as its call context.
C7_FullBatchAndContext ==
  \A c \in Cycles :
    /\ \A i \in Positions(c, "handler") \cup Positions(c, "validator") :
         FullBatchOf(c.log[i].arg, c.simpleChanges)
    /\ \A i \in Positions(c, "handler") : c.log[i].thisArg = component

\* A handler that watches a only, and its validator, were given a batch
\* with the entry of b, reported and unchanged.
C7_Witness ==
  /\ last # NoCall
  /\ Completed(last)
  /\ ChangedFields(last) = {PropA}
  /\ DOMAIN last.simpleChanges = {PropA, PropB}
  /\ \E i \in Positions(last, "handler"), j \in Positions(last, "validator") :
       /\ last.log[j].gates = last.log[i].fn
       /\ \A g \in DOMAIN callbacksByGroup :
            callbacksByGroup[g].value.callback = last.log[i].fn => GroupFields(g) = {PropA}
       /\ PropB \in DOMAIN last.log[i].arg
       /\ PropB \in DOMAIN last.log[j].arg

-----------------------------------------------------------------------------
\* same-value identity: a primitive is identical to a primitive of the same
\* value (NaN to NaN, +0 not to -0), an object to itself alone
Identical(x, y) ==
  /\ x.type = y.type
  /\ x.type = "primitive" => x.val = y.val
  /\ x.type = "object" => x.ref = y.ref

DidChangeOf(simpleChange) ==
  IF simpleChange = Undefined THEN FALSE
  ELSE IF simpleChange.firstChange THEN FALSE
  ELSE ~Identical(simpleChange.currentValue, simpleChange.previousValue)

\* C8: didChange is false when the first-observation flag is true or the
\* notification is undefined, whatever the values; otherwise it is true
\* exactly when currentValue is not identical to previousValue.
C8_DidChange ==
  pureOut # NoCall =>
    /\ pureIn.fn = "didPropertyChange" => pureOut.value = DidChangeOf(pureIn.arg)
    /\ pureIn.fn = "getChangesSummary" =>
         \A f \in DOMAIN pureIn.arg :
           /\ f \in DOMAIN pureOut.value
           /\ pureOut.value[f].didChange = DidChangeOf(pureIn.arg[f])

\* Two objects of one shape: a change.
C8_Witness ==
  /\ pureOut # NoCall
  /\ pureIn.fn = "didPropertyChange"
  /\ pureIn.arg # Undefined
  /\ pureIn.arg.previousValue = Object("{}", 1)
  /\ pureIn.arg.currentValue = Object("{}", 2)
  /\ ~pureIn.arg.firstChange
  /\ pureOut.value

\* A first change of differing values: no change.
C8_WitnessFirstChange ==
  /\ pureOut # NoCall
  /\ pureIn.fn = "didPropertyChange"
  /\ pureIn.arg # Undefined
  /\ pureIn.arg.firstChange
  /\ pureIn.arg.previousValue # pureIn.arg.currentValue
  /\ ~pureOut.value

\* C9: the ChangeBatch has exactly the raw input's field names as its keys:
\* no entry is synthesized for an unreported field, and every reported field
\* has an entry with its previous value, current value, first-change flag
\* and didChange.
C9_BatchKeysAreReportedFields ==
  (pureOut # NoCall /\ pureIn.fn = "getChangesSummary") =>
    FullBatchOf(pureOut.value, pureIn.arg)

\* The batch of an input that reports a and not b.
C9_Witness ==
  /\ pureOut # NoCall
  /\ pureIn.fn = "getChangesSummary"
  /\ DOMAIN pureIn.arg = {PropA}
  /\ DOMAIN pureOut.value = {PropA}

\* C10: every call of the public manageChanges returns to its caller the
\* ChangeBatch computed from the rawChanges passed to that call, whatever
\* the construction configuration.
C10_ReturnsChangeBatch ==
  (call # NoCall /\ call.returned # Running) =>
    /\ call.returned.type = "summary"
    /\ FullBatchOf(call.returned.value, call.simpleChanges)

-----------------------------------------------------------------------------
\* the pending timers of one debounced function
Pending(fn) == {i \in DOMAIN timers : timers[i].fn = fn}

\* the executions of _manageChanges a timer started since the last call of
\* manageChanges: the running ones and the one that ended
TimerCycles == {c \in Cycles : c.from = "timer"}

\* C11: for the debounced manageChanges, calls that each arrive before the
\* timer of the previous call fired result in exactly one cycle execution,
\* made with the raw changes of the last call: after a call, until the
\* next one, there is always exactly one execution of _manageChanges that
\* is either pending on the one timer or started by it, and it holds the
\* simpleChanges of the last call.
C11_CallsCollapseToLastCall ==
  (shouldDebounceDetection /\ call # NoCall) =>
    /\ Cardinality(Pending("manageChanges")) + Cardinality(TimerCycles) = 1
    /\ Len(stack) + (IF last = NoCall THEN 0 ELSE 1) = Cardinality(TimerCycles)
    /\ \A i \in Pending("manageChanges") : timers[i].args = call.simpleChanges
    /\ \A c \in TimerCycles : c.simpleChanges = call.simpleChanges

\* A cycle ended that the timer started with the changes of the last call,
\* while a timer of detectChangesDebounced is still pending.
C11_Witness ==
  /\ shouldDebounceDetection
  /\ call # NoCall
  /\ DOMAIN call.simpleChanges = {PropB}
  /\ last # NoCall
  /\ last.from = "timer"
  /\ last.simpleChanges = call.simpleChanges
  /\ Pending("manageChanges") = {}
  /\ Pending("detectChanges") # {}

\* C12: in every reachable state each debounced function (manageChanges,
\* detectChangesDebounced) has at most one pending timer.
C12_OnePendingTimer ==
  \A fn \in {"manageChanges", "detectChanges"} : Cardinality(Pending(fn)) <= 1

\* Both debounced functions have their timer pending, the one of
\* manageChanges scheduled last.
C12_Witness ==
  /\ Len(timers) = 2
  /\ timers[1].fn = "detectChanges"
  /\ timers[2].fn = "manageChanges"

-----------------------------------------------------------------------------
\* an executeCallbacks that ended, by returning or by an exception
Executed == last # NoCall /\ last.from = "executeCallbacks"

\* C13: executeCallbacks() with default options (avoidValidations not set)
\* invokes every registered handler exactly once, the handlers registered
\* without a validator included; said of a run in which no validator
\* rejected.
C13_DefaultRunsEveryHandlerOnce ==
  (/\ Executed
   /\ ~last.avoidValidations
   /\ \A i \in Positions(last, "validator") : last.log[i].result) =>
    \A h \in RegisteredHandlers : Cardinality(Invocations(last, h)) = 1

\* C14: executeCallbacks({avoidValidations: true}) invokes every registered
\* distinct handler exactly once, whatever its validators would return, and
\* evaluates no validator.
C14_AvoidValidationsRunsEveryHandler ==
  (Executed /\ last.avoidValidations) =>
    /\ last.pc = "done"
    /\ \A h \in RegisteredHandlers : Cardinality(Invocations(last, h)) = 1
    /\ \A i \in Positions(last, "handler") : last.log[i].fn \in RegisteredHandlers
    /\ Positions(last, "validator") = {}

\* A run with avoidValidations of a Registry of two handlers, one of them
\* gated by a validator.
C14_Witness ==
  /\ Executed
  /\ last.avoidValidations
  /\ Cardinality(RegisteredHandlers) = 2
  /\ \E i \in DOMAIN callbacksByGroup :
       /\ callbacksByGroup[i].value.validator # Null
       /\ Invocations(last, callbacksByGroup[i].value.callback) # {}

\* the activation of executeCallbacks that is running, or none
Executing(activations) ==
  {activations[i] : i \in {j \in DOMAIN activations :
                             activations[j].from = "executeCallbacks"}}

\* C15: executeCallbacks leaves everything but the handlers' own effects
\* unchanged: no step of it invokes the re-render action
\* (changeDetectorRef.detectChanges) or the post-cycle hook (onChanges),
\* none cancels, fires or schedules a timer, and none changes a field of
\* the manager.
C15_ExecuteCallbacksFrame ==
  [][(\/ Executing(stack) # {}
      \/ Executing(stack') # {}
      \/ (last' # last /\ last' # NoCall /\ last'.from = "executeCallbacks")) =>
       /\ timers' = timers
       /\ managerVars' = managerVars
       /\ \A c \in Executing(stack') \cup (IF last' = NoCall THEN {} ELSE {last'}) :
            c.from = "executeCallbacks" =>
              \A i \in DOMAIN c.log : c.log[i].type \in {"validator", "handler"}]_vars

\* An executeCallbacks that called a handler and returned while the timer
\* of detectChangesDebounced was pending.
C15_Witness ==
  /\ Executed
  /\ last.pc = "done"
  /\ Positions(last, "handler") # {}
  /\ Pending("detectChanges") # {}

\* the fields that belong to some registered group
RegisteredFields ==
  UNION {propertiesByGroup[i].value : i \in DOMAIN propertiesByGroup}

\* C16: the synthetic ChangeBatch of executeCallbacks has an entry for
\* exactly the fields that belong to some registered group, each with
\* previousValue and currentValue equal to the component's current value of
\* the field, firstChange = false and didChange = false.
C16_SyntheticBatch ==
  \A c \in Cycles :
    c.from = "executeCallbacks" =>
      /\ DOMAIN c.changesSummary = RegisteredFields
      /\ \A f \in DOMAIN c.changesSummary :
           /\ c.changesSummary[f].previousValue = ComponentGet(f)
           /\ c.changesSummary[f].currentValue = ComponentGet(f)
           /\ c.changesSummary[f].firstChange = FALSE
           /\ c.changesSummary[f].didChange = FALSE

-----------------------------------------------------------------------------
\* the declarations of a parameter as they were written: a key list and a
\* config each
Declarations(parameter) ==
  IF parameter = Undefined THEN <<>>
  ELSE IF parameter.shape = "array" THEN parameter.entries
  ELSE [i \in DOMAIN parameter.entries |->
          [keys |-> <<parameter.entries[i].key>>,
           config |-> parameter.entries[i].config]]

\* the parameter of the configuration call that built the Registry
Declared == Declarations(pureIn.arg)

\* C17: two declared field lists with identical members produce the same
\* GroupKey, whatever the order of the names and whether or not a name is
\* repeated, and therefore one registry entry: the Registry has exactly one
\* group whose field set is the member set of a declaration.
C17_SameMembersOneKey ==
  \A d \in DOMAIN Declared :
    Cardinality({i \in DOMAIN propertiesByGroup :
                   propertiesByGroup[i].value = SetOf(Declared[d].keys)}) = 1

\* the handler and the validator a declaration asks for
HandlerOf(config) == IF IsFunction(config) THEN config ELSE config.callback
GateOf(config) ==
  IF IsFunction(config) THEN Null
  ELSE IF config.validator = Undefined THEN Null ELSE config.validator

\* the declarations of one GroupKey, in the order they were written
DeclaredAs(groupId) == {d \in DOMAIN Declared : GroupId(Declared[d].keys) = groupId}

Latest(declarations) == CHOOSE d \in declarations : \A e \in declarations : e <= d

\* C18: when one configuration declares two entries with the same GroupKey,
\* the Registry holds for that key the handler and validator of the later
\* entry only.
C18_LaterEntryReplaces ==
  \A i \in DOMAIN callbacksByGroup :
    LET declarations == DeclaredAs(callbacksByGroup[i].key)
    IN /\ declarations # {}
       /\ callbacksByGroup[i].value.callback =
            HandlerOf(Declared[Latest(declarations)].config)
       /\ callbacksByGroup[i].value.validator =
            GateOf(Declared[Latest(declarations)].config)
       /\ Cardinality({j \in DOMAIN callbacksByGroup :
                         callbacksByGroup[j].key = callbacksByGroup[i].key}) = 1

\* Two entries of one GroupKey, written in different orders, the first with
\* a validator and the second with another handler and none.
C18_Witness ==
  /\ Len(Declared) = 2
  /\ Declared[1].keys # Declared[2].keys
  /\ GroupId(Declared[1].keys) = GroupId(Declared[2].keys)
  /\ GateOf(Declared[1].config) # Null
  /\ GateOf(Declared[2].config) = Null
  /\ HandlerOf(Declared[1].config) # HandlerOf(Declared[2].config)
  /\ Len(callbacksByGroup) = 1
  /\ callbacksByGroup[1].value.callback = HandlerOf(Declared[2].config)

\* C19: after a configuration call the Registry contains exactly the groups
\* of the new declarations and nothing of the previous Registry: its keys
\* are the GroupKeys of the new declarations, and each holds the field set
\* and the handler of a new declaration of that key.
C19_RegistryIsReplaced ==
  pureIn.fn = "setCallbacksConfig" =>
    /\ MapKeys(callbacksByGroup) = {GroupId(Declared[d].keys) : d \in DOMAIN Declared}
    /\ MapKeys(propertiesByGroup) = MapKeys(callbacksByGroup)
    /\ \A i \in DOMAIN callbacksByGroup :
         \E d \in DeclaredAs(callbacksByGroup[i].key) :
           callbacksByGroup[i].value.callback = HandlerOf(Declared[d].config)
    /\ \A i \in DOMAIN propertiesByGroup :
         \E d \in DeclaredAs(propertiesByGroup[i].key) :
           propertiesByGroup[i].value = SetOf(Declared[d].keys)

\* The Registry after a second call that declares the group of a in array
\* form with the handler h2: one group, with that handler.
C19_Witness ==
  /\ pureIn.fn = "setCallbacksConfig"
  /\ pureIn.arg.shape = "array"
  /\ Len(pureIn.arg.entries) = 1
  /\ pureIn.arg.entries[1] = [keys |-> <<PropA>>, config |-> Function("h2")]
  /\ Len(callbacksByGroup) = 1
  /\ callbacksByGroup[1].key = PropA
  /\ callbacksByGroup[1].value.callback = Function("h2")

\* the mapping {f1: c1, ...} written as the list [[[f1], c1], ...]
AsList(parameter) ==
  [shape |-> "array", entries |-> Declarations(parameter)]

\* the parameter with { callback: h } written for every bare function h
AsObjects(parameter) ==
  [parameter EXCEPT !.entries =
     [i \in DOMAIN @ |->
        [@[i] EXCEPT !.config =
           IF IsFunction(@) THEN CallbackConfig(@, Undefined) ELSE @]]]

\* the Registry a parameter builds
RegistryOf(parameter) ==
  LET fields == setCallbacksConfig(parameter, FieldDefaults)
  IN <<fields.propertiesByGroup, fields.callbacksByGroup>>

\* C20: both declaration shapes normalize to the same Registry: a mapping
\* builds the Registry of the list of its singleton groups, and a bare
\* handler h builds the entry of { callback: h }.
C20_ShapesBuildOneRegistry ==
  pureIn.arg # Undefined =>
    /\ pureIn.arg.shape = "object" =>
         <<propertiesByGroup, callbacksByGroup>> = RegistryOf(AsList(pureIn.arg))
    /\ <<propertiesByGroup, callbacksByGroup>> = RegistryOf(AsObjects(pureIn.arg))

\* The Registry of a mapping of two fields, one to a bare handler and one
\* to a handler with a validator.
C20_Witness ==
  /\ pureIn.arg # Undefined
  /\ pureIn.arg.shape = "object"
  /\ Len(pureIn.arg.entries) = 2
  /\ IsFunction(pureIn.arg.entries[1].config)
  /\ GateOf(pureIn.arg.entries[2].config) # Null
  /\ Len(callbacksByGroup) = 2
  /\ callbacksByGroup[1].value.validator = Null

-----------------------------------------------------------------------------
\* a cycle that ended by an exception
Aborted == last # NoCall /\ last.pc = "thrown"

\* C21 as it is stated: when a handler or validator throws while the cycle
\* requested by a manageChanges call is processed, the error is raised to
\* the caller of that manageChanges call, in every construction
\* configuration.
C21_RaisedToCaller ==
  Aborted => call.returned = Thrown

\* C21, amended: the error is raised to the caller of manageChanges exactly
\* when the manager was built with a debounceDelay that is NaN; in every
\* other configuration, the default one included, the call has returned
\* undefined before the cycle began, and the error is raised in the timer
\* step, to the runtime.
C21_RaisedToCallerUnlessDebounced ==
  Aborted =>
    IF isNaN(debounceDelay)
    THEN last.from = "call" /\ call.returned = Thrown
    ELSE last.from = "timer" /\ call.returned = Undefined

\* A handler threw in the cycle of a manager built with the default delay.
C21_Witness ==
  /\ Aborted
  /\ debounceDelay = Primitive("0")
  /\ last.log[Len(last.log)] = ThrowingCall("handler", Function("h1"))
  /\ call.returned = Undefined

\* C22: when a handler or validator throws during a cycle, no handler or
\* validator that comes later in the cycle's order is invoked, and neither
\* the re-render action nor the post-cycle hook is invoked for that cycle:
\* the call that threw is the last call of the cycle (the calls made
\* before it stay made).
C22_ThrowEndsTheCycle ==
  \A c \in Cycles :
    /\ Positions(c, "throw") # {} => c.pc = "thrown"
    /\ c.pc = "thrown" =>
         /\ Positions(c, "throw") = {Len(c.log)}
         /\ Positions(c, "detectChanges") = {}
         /\ Positions(c, "onChanges") = {}

\* The second handler of a cycle threw after the first had run, in a
\* manager with a hook: the log ends with the call that threw.
C22_Witness ==
  /\ Aborted
  /\ onChanges # Undefined
  /\ Len(last.log) = 2
  /\ last.log[1].type = "handler"
  /\ last.log[2].type = "throw"
  /\ last.log[2].by = "handler"

\* C23: a callback declaration that is neither a function nor a
\* {callback, validator} object is never stored in the Registry and never
\* causes a failure at dispatch time.
C23_MalformedNeverStored ==
  /\ \A i \in DOMAIN callbacksByGroup : IsFunction(callbacksByGroup[i].value.callback)
  /\ \A c \in Cycles : \A i \in Positions(c, "throw") : c.log[i].by # "TypeError"

-----------------------------------------------------------------------------
\* C24: a manager constructed without callbacks has both maps of its
\* Registry empty, and each of its cycles calls no handler and no validator
\* and calls detectChanges once when strict is false or a reported property
\* has didChange = true, and not at all otherwise.
C24_NoCallbacksIsNoOp ==
  Constructed /\ pureIn.arg.callbacks = Undefined =>
    /\ propertiesByGroup = <<>>
    /\ callbacksByGroup = <<>>
    /\ \A c \in Cycles :
         /\ Positions(c, "handler") = {}
         /\ Positions(c, "validator") = {}
         /\ c.pc = "done" =>
              Cardinality(Positions(c, "detectChanges")) =
                IF ~strict \/ ChangedFields(c) # {} THEN 1 ELSE 0

\* A strict manager without callbacks ended a cycle of a changed property
\* with one detectChanges, its only call.
C24_Witness ==
  /\ Constructed
  /\ pureIn.arg.callbacks = Undefined
  /\ strict
  /\ last # NoCall
  /\ last.pc = "done"
  /\ ChangedFields(last) # {}
  /\ last.log = <<DetectChangesCall>>

-----------------------------------------------------------------------------
\* C25: constructing a manager calls nothing and schedules nothing: until
\* the host makes its first call there is no activation, running or ended,
\* hence no call of a handler, a validator, onChanges or detectChanges, and
\* no timer is pending.
C25_ConstructionIsSilent ==
  Constructed /\ call = NoCall =>
    /\ timers = <<>>
    /\ stack = <<>>
    /\ last = NoCall

\* A manager was constructed with callbacks, a gated one among them, and
\* with onChanges, and the host has made no call.
C25_Witness ==
  /\ Constructed
  /\ call = NoCall
  /\ onChanges # Undefined
  /\ \E i \in DOMAIN callbacksByGroup : callbacksByGroup[i].value.validator # Null

-----------------------------------------------------------------------------
\* C26: a cycle calls onChanges at most once, as its last call, after its
\* detectChanges and after every handler, and with the summary of all the
\* properties reported to the cycle; a manager given onChanges calls it in
\* every cycle that ends and that strict did not suppress, and in no cycle
\* that strict suppressed.
C26_OnChangesOncePerProcessedCycle ==
  \A c \in Cycles :
    /\ Cardinality(Positions(c, "onChanges")) <= 1
    /\ \A i \in Positions(c, "onChanges") :
         /\ i = Len(c.log)
         /\ c.log[i].arg = c.changesSummary
         /\ DOMAIN c.log[i].arg = DOMAIN c.simpleChanges
         /\ Positions(c, "detectChanges") # {}
         /\ \A j \in Positions(c, "detectChanges") \cup Positions(c, "handler") : j < i
    /\ strict /\ ChangedFields(c) = {} => Positions(c, "onChanges") = {}
    /\ (c.pc = "done" /\ onChanges # Undefined /\ (~strict \/ ChangedFields(c) # {}))
         => Positions(c, "onChanges") # {}

\* A cycle of a changed and an unchanged property ran a handler, then
\* detectChanges, then onChanges.
C26_Witness ==
  /\ last # NoCall
  /\ last.pc = "done"
  /\ Len(last.log) = 3
  /\ last.log[1].type = "handler"
  /\ last.log[2].type = "detectChanges"
  /\ last.log[3].type = "onChanges"
  /\ \E p \in DOMAIN last.changesSummary : ~last.changesSummary[p].didChange

-----------------------------------------------------------------------------
\* the execution of _manageChanges that the timer of a call started
Dispatched == stack # <<>> \/ (last # NoCall /\ last.from = "timer")

\* C27: a manager constructed without debounceDelay does not dispatch
\* inside manageChanges: the call returns with its timer pending and with
\* no activation begun, the activation begins when that timer fires, and
\* every zero-delay timer the host scheduled after the call is behind that
\* timer in the queue until the activation has begun, so that when such a
\* host timer fires the cycle of the call has ended.
C27_DispatchedInALaterTimerStep ==
  /\ [](Constructed /\ pureIn.arg.debounceDelay = Undefined /\ call # NoCall =>
          /\ call.returned = Undefined
          /\ Pending("manageChanges") # {} => ~Dispatched
          /\ Pending("manageChanges") = {} => Dispatched
          /\ \A i \in HostTimers :
               timers[i].args.afterCall =>
                 \/ \E j \in Pending("manageChanges") : j < i
                 \/ Dispatched)
  /\ [][pureIn.arg.debounceDelay = Undefined =>
          /\ (Constructed /\ ManageChangesCall) =>
               /\ Pending("manageChanges")' # {}
               /\ stack' = <<>>
               /\ last' = NoCall
          /\ (Constructed /\ HostTimerFires /\ Head(timers).args.afterCall) =>
               /\ last # NoCall
               /\ last.from = "timer"
               /\ last.pc = "done"]_vars

\* A host timer scheduled after the call is pending and the cycle of the
\* call, which called a handler, has ended.
C27_Witness ==
  /\ Constructed
  /\ pureIn.arg.debounceDelay = Undefined
  /\ call # NoCall
  /\ \E i \in HostTimers : timers[i].args.afterCall
  /\ last # NoCall
  /\ last.from = "timer"
  /\ last.pc = "done"
  /\ Positions(last, "handler") # {}

-----------------------------------------------------------------------------
\* the callback a call of the forEach belongs to: the one called, or the
\* one a validator stands before
ProcessedFor(entry) == IF entry.type = "validator" THEN entry.gates ELSE entry.fn

ForEachCalls(c) == Positions(c, "validator") \cup Positions(c, "handler")

\* the place in the Registry of the first group triggered for callback h
FirstTriggeredGroupOf(c, h) ==
  CHOOSE i \in TriggeredGroupsOf(c, h) : \A j \in TriggeredGroupsOf(c, h) : i <= j

\* C28: in a cycle the calls made for one callback come before the calls
\* made for a callback whose first triggered group is later in the
\* Registry, and the calls made for one callback are its validators
\* followed by the callback itself: no call for another callback falls
\* between them.
C28_CallbacksInRegistryOrder ==
  \A c \in Cycles :
    \A i, j \in ForEachCalls(c) :
      LET hi == ProcessedFor(c.log[i])
          hj == ProcessedFor(c.log[j])
      IN /\ TriggeredGroupsOf(c, hi) # {}
         /\ i < j =>
              /\ FirstTriggeredGroupOf(c, hi) <= FirstTriggeredGroupOf(c, hj)
              /\ hi = hj => c.log[i].type = "validator"

\* The second group of the Registry is h2's, the first is h1's with a
\* validator, both are triggered, and the cycle called the validator, h1
\* and then h2.
C28_Witness ==
  /\ last # NoCall
  /\ last.pc = "done"
  /\ Len(last.log) >= 3
  /\ last.log[1].type = "validator"
  /\ last.log[1].gates = Function("h1")
  /\ last.log[2].type = "handler"
  /\ last.log[2].fn = Function("h1")
  /\ last.log[3].type = "handler"
  /\ last.log[3].fn = Function("h2")

-----------------------------------------------------------------------------
\* the pending timers of fn, in the order they will fire
PendingTimers(queue, fn) == SelectSeq(queue, LAMBDA t : t.fn = fn)

\* the timers of fn are the same before and after the step and none of
\* them has more timers ahead of it than it had
Untouched(fn) ==
  /\ PendingTimers(timers', fn) = PendingTimers(timers, fn)
  /\ \A i \in DOMAIN timers :
       timers[i].fn = fn => \E j \in DOMAIN timers' : j <= i /\ timers'[j] = timers[i]

\* C30: a call of detectChangesDebounced leaves the pending timer of
\* manageChanges as it is and no later in the queue; a call of manageChanges
\* leaves the pending timer of detectChangesDebounced as it is and no later
\* in the queue; a call of detectChanges calls the change detector once,
\* before it returns, and leaves every timer as it is.
C30_CoalescingPointsAreIndependent ==
  [][/\ (Constructed /\ DetectChangesDebounced) => Untouched("manageChanges")
     /\ (Constructed /\ ManageChangesCall)
          => Untouched("detectChanges")
     /\ (Constructed /\ DetectChanges)
          => /\ timers' = timers
             /\ stack' = <<>>
             /\ last'.log = <<DetectChangesCall>>]_vars

\* Both timers are pending, that of manageChanges behind the other, and the
\* host has called detectChanges.
C30_Witness ==
  /\ Len(timers) = 2
  /\ timers[1].fn = "detectChanges"
  /\ timers[2].fn = "manageChanges"
  /\ last # NoCall
  /\ last.from = "detectChanges"

-----------------------------------------------------------------------------
\* the last call of manageChanges has been executed by its timer
ExecutedByTimer ==
  /\ Pending("manageChanges") = {}
  /\ stack = <<>>
  /\ last # NoCall
  /\ last.from = "timer"
  /\ last.pc \in {"done", "thrown"}
  /\ last.simpleChanges = call.simpleChanges

\* C29: the pending timer of a debounced function changes only when that
\* function is called again or when the timer fires; when it fires no timer
\* of that function is left, so that it runs once; a call of the debounced
\* manageChanges executes nothing itself; and if from some point on
\* manageChanges (detectChangesDebounced) is not called again, then
\* eventually its timer has fired, for manageChanges with the execution of
\* the last call made.
C29_DeferredExecutionHappensOnce ==
  /\ [][/\ PendingTimers(timers', "manageChanges") # PendingTimers(timers, "manageChanges")
             => Constructed /\ (ManageChangesCall \/ TimerFires)
        /\ PendingTimers(timers', "detectChanges") # PendingTimers(timers, "detectChanges")
             => Constructed /\ (DetectChangesDebounced \/ DetectChangesTimerFires)
        /\ (Constructed /\ TimerFires) => PendingTimers(timers', "manageChanges") = <<>>
        /\ (Constructed /\ DetectChangesTimerFires) => PendingTimers(timers', "detectChanges") = <<>>
        /\ (Constructed /\ shouldDebounceDetection /\ ManageChangesCall)
             => /\ stack' = <<>>
                /\ last' = NoCall
                /\ Len(PendingTimers(timers', "manageChanges")) = 1]_vars
  /\ <>[][~(Constructed /\ ManageChangesCall)]_vars
       => <>[](call # NoCall /\ shouldDebounceDetection => ExecutedByTimer)
  /\ <>[][~(Constructed /\ DetectChangesDebounced)]_vars
       => <>[](PendingTimers(timers, "detectChanges") = <<>>)

\* The timer of the last call of manageChanges has fired and run its cycle,
\* which called a handler, and no timer is pending.
C29_Witness ==
  /\ call # NoCall
  /\ shouldDebounceDetection
  /\ ExecutedByTimer
  /\ timers = <<>>
  /\ Positions(last, "handler") # {}

-----------------------------------------------------------------------------
\* the groups of the maps `registry` that the batch of cycle c triggers
TriggeredIn(registry, c) ==
  {i \in DOMAIN registry.callbacksByGroup :
     \E j \in DOMAIN registry.propertiesByGroup :
       /\ registry.propertiesByGroup[j].key = registry.callbacksByGroup[i].key
       /\ \E f \in registry.propertiesByGroup[j].value :
            /\ f \in DOMAIN c.changesSummary
            /\ c.changesSummary[f].didChange}

\* C31: when the Registry was replaced between a call of manageChanges and
\* the execution of its cycle, the cycle calls the handlers and validators
\* of the groups the batch triggers in the Registry that was replaced: each
\* handler it calls is the handler of such a group, each validator it calls
\* is the validator of such a group, and once it has ended it has called
\* the handler of every such group that has no validator.
C31_CycleUsesRegistryOfTheCall ==
  \A c \in TimerCycles :
    pureOut # NoCall =>
      LET old == pureOut.callbacksByGroup
          triggered == TriggeredIn(pureOut, c)
      IN /\ \A i \in Positions(c, "handler") :
              \E g \in triggered : old[g].value.callback = c.log[i].fn
         /\ \A i \in Positions(c, "validator") :
              \E g \in triggered : old[g].value.validator = c.log[i].fn
         /\ c.pc = "done" =>
              \A g \in triggered :
                old[g].value.validator = Null =>
                  Invocations(c, old[g].value.callback) # {}

-----------------------------------------------------------------------------
\* C32: declarations whose field sets differ have different group ids, so
\* the Registry holds the field set of every declaration, and splitting a
\* group id at '|', as executeCallbacks does, gives the names of the field
\* set stored for it; property names that hold '|' included.
C32_GroupIdIsInjective ==
  /\ \A d, e \in DOMAIN Declared :
       SetOf(Declared[d].keys) # SetOf(Declared[e].keys)
         => GroupId(Declared[d].keys) # GroupId(Declared[e].keys)
  /\ \A d \in DOMAIN Declared :
       \E i \in DOMAIN propertiesByGroup :
         propertiesByGroup[i].value = SetOf(Declared[d].keys)
  /\ \A i \in DOMAIN propertiesByGroup :
       SetOf(StringSplit(propertiesByGroup[i].key, <<"|">>)) = propertiesByGroup[i].value

-----------------------------------------------------------------------------
\* the properties a call of manageChanges reported as changed
ReportedChanged(simpleChanges) ==
  {f \in DOMAIN simpleChanges : didPropertyChange(simpleChanges[f])}

\* the properties of the groups of callback h
WatchedBy(h) ==
  UNION {propertiesByGroup[j].value :
           j \in {k \in DOMAIN propertiesByGroup :
                    \E i \in DOMAIN callbacksByGroup :
                      /\ callbacksByGroup[i].key = propertiesByGroup[k].key
                      /\ callbacksByGroup[i].value.callback = h}}

\* C33: the cycle that follows calls of manageChanges of which the earlier
\* were superseded is made of the last call alone: its batch has an entry
\* for the properties the last call reported and for no other, and a
\* callback none of whose properties the last call reported as changed is
\* not called, whatever the superseded calls reported.
C33_SupersededChangesAreDiscarded ==
  \A c \in TimerCycles :
    pureOut # NoCall =>
      /\ c.simpleChanges = call.simpleChanges
      /\ DOMAIN c.changesSummary = DOMAIN call.simpleChanges
      /\ \A h \in RegisteredHandlers :
           WatchedBy(h) \cap ReportedChanged(call.simpleChanges) = {}
             => Invocations(c, h) = {}

\* The first call reported a change of a, the call that superseded it
\* reported b only, and the cycle, whose batch has no entry for a, has ended
\* without a call of the callback that watches a alone.
C33_Witness ==
  /\ pureOut # NoCall
  /\ PropA \in ReportedChanged(pureOut.superseded)
  /\ DOMAIN call.simpleChanges = {PropB}
  /\ last # NoCall
  /\ last.from = "timer"
  /\ last.pc = "done"
  /\ DOMAIN last.changesSummary = {PropB}
  /\ \E h \in RegisteredHandlers : WatchedBy(h) = {PropA} /\ Invocations(last, h) = {}

-----------------------------------------------------------------------------
\* C34 as it is stated: no cycle begins while a cycle is being processed.
C34_CyclesNeverNest == Len(stack) <= 1

\* a cycle that waits for a validator, a callback or onChanges to return
Waiting(c) ==
  \/ c.pc = "callbacks" /\ c.callbacks # <<>>
  \/ c.pc = "onChanges"

\* C34, amended: when manageChanges is debounced no cycle begins while a
\* cycle is being processed: a call made from inside a cycle sets the timer
\* and changes nothing of the running cycle, the timer fires only when no
\* cycle is running, and every cycle that ends processed has made its one
\* detectChanges and, when there is one, its one call of onChanges.  When
\* manageChanges is not debounced such a call runs its cycle inside the
\* callback that made it: the cycles below it on the stack wait in a
\* validator, a callback or onChanges until it has ended.
C34_CyclesNestOnlyWhenNotDebounced ==
  /\ [](/\ shouldDebounceDetection => Len(stack) <= 1
        /\ ~shouldDebounceDetection => timers = <<>>
        /\ \A i \in 1..(Len(stack) - 1) :
             /\ Waiting(stack[i])
             /\ stack[i + 1].from = "callback"
        /\ \A c \in Cycles :
             /\ Cardinality(Positions(c, "detectChanges")) <= 1
             /\ Cardinality(Positions(c, "onChanges")) <= 1
             /\ (c.pc = "done" /\ c.processed) =>
                  /\ Positions(c, "detectChanges") # {}
                  /\ onChanges # Undefined => Positions(c, "onChanges") # {})
  /\ [][/\ (shouldDebounceDetection
              /\ \E simpleChanges \in NestedChanges : ManageChangesWithin(simpleChanges))
             => /\ stack' = stack
                /\ last' = last
                /\ ManageChangesPending']_vars
  /\ [][TimerFires => stack = <<>>]_vars

\* A debounced manageChanges was called from inside a cycle: its timer is
\* pending while the cycle, which has called a callback and detectChanges,
\* is in onChanges.
C34_Witness ==
  /\ shouldDebounceDetection
  /\ Len(stack) = 1
  /\ ManageChangesPending
  /\ Top.pc = "onChanges"
  /\ Positions(Top, "handler") # {}
  /\ Positions(Top, "detectChanges") # {}

-----------------------------------------------------------------------------
\* C35: propertiesByGroup and callbacksByGroup have the same keys; the keys
\* are the group ids of the declarations of the last configuration call,
\* and the field set stored for a key is the set of the names of a
\* declaration of that group id; and the two maps change only in a
\* configuration call, not in a step of a cycle or of executeCallbacks.
C35_MapsAgree ==
  /\ [](/\ MapKeys(propertiesByGroup) = MapKeys(callbacksByGroup)
        /\ Len(propertiesByGroup) = Len(callbacksByGroup)
        /\ MapKeys(propertiesByGroup) =
             {GroupId(Declared[d].keys) : d \in DOMAIN Declared}
        /\ \A i \in DOMAIN propertiesByGroup :
             \E d \in DOMAIN Declared :
               /\ GroupId(Declared[d].keys) = propertiesByGroup[i].key
               /\ SetOf(Declared[d].keys) = propertiesByGroup[i].value)
  /\ [][<<propertiesByGroup, callbacksByGroup>>' # <<propertiesByGroup, callbacksByGroup>>
          => Reconfigure]_vars

\* A manager configured once more since it was made, with one group, has
\* ended a run of executeCallbacks that called the callback of the group.
C35_Witness ==
  /\ pureIn.fn = "setCallbacksConfig"
  /\ Len(propertiesByGroup) = 1
  /\ last # NoCall
  /\ last.from = "executeCallbacks"
  /\ last.pc = "done"
  /\ Positions(last, "handler") # {}

-----------------------------------------------------------------------------
\* the groups of the Registry whose validator is v and whose callback is h
GroupsGatedBy(v, h) ==
  {i \in DOMAIN callbacksByGroup :
     /\ callbacksByGroup[i].value.validator = v
     /\ callbacksByGroup[i].value.callback = h}

\* C36: a validator called in a cycle is the validator of a group the batch
\* of the cycle triggers, called for the callback of that group; and a
\* callback with a triggered group is called when the validators called
\* for it approved, whatever validators its groups that are not triggered
\* have.
C36_OnlyTriggeredValidators ==
  \A c \in Cycles :
    /\ \A i \in Positions(c, "validator") :
         GroupsGatedBy(c.log[i].fn, c.log[i].gates) \cap Triggered(c) # {}
    /\ (c.pc = "done" /\ c.processed) =>
         \A h \in RegisteredHandlers :
           (/\ TriggeredGroupsOf(c, h) # {}
            /\ \A i \in Positions(c, "validator") :
                 c.log[i].gates = h => c.log[i].result)
             => Invocations(c, h) # {}

\* A callback has a triggered group without validator and a group with a
\* validator that is not triggered; the cycle called it and no validator.
C36_Witness ==
  /\ last # NoCall
  /\ last.pc = "done"
  /\ Positions(last, "validator") = {}
  /\ \E h \in RegisteredHandlers :
       /\ Invocations(last, h) # {}
       /\ \E i \in DOMAIN callbacksByGroup :
            /\ i \notin Triggered(last)
            /\ callbacksByGroup[i].value.callback = h
            /\ callbacksByGroup[i].value.validator # Null

====
